---- MODULE Spec2Model ----
(***************************************************************************)
(* Model of generate_data.py: the table generators of the lodging dataset. *)
(*                                                                         *)
(* A table is a sequence of rows (records); only the columns that carry    *)
(* keys, roles, dates, amounts and statuses are kept, the free-text        *)
(* columns produced by Faker are left out.  Dates are day numbers of the   *)
(* year 2024 (2024-01-01 = 1, 2024-06-01 = 153, 2024-06-30 = 182).  Money  *)
(* is counted in cents and a discount in hundredths of a percent, so that  *)
(* round(x, 2) is a rounding to an integer.                                *)
(*                                                                         *)
(* Every generator is run as a call: `args` holds the calls to make, in   *)
(* order, and their arguments; `data` is the table map (main's `data`      *)
(* dict: the parent tables and, once a call returned, its result); `loc`   *)
(* holds the local variables of the running call and `pc` the position in  *)
(* it (the name of a generator: about to call it).                         *)
(***************************************************************************)
EXTENDS Integers, Sequences, FiniteSets, TLC

VARIABLES pc, args, data, loc

vars == <<pc, args, data, loc>>

----------------------------------------------------------------------------
(* Helpers *)

Max(a, b) == IF a >= b THEN a ELSE b

Min(a, b) == IF a <= b THEN a ELSE b

Range(s) == {s[i] : i \in 1..Len(s)}

\* data[k] = v, adding the key when it is new (data["k"] = ... in main)
Put(d, k, v) == [x \in (DOMAIN d) \cup {k} |-> IF x = k THEN v ELSE d[x]]

\* the column `col` of a table, as the set of its values
Column(t, col) == {t[i][col] : i \in 1..Len(t)}

\* number of rows of t that satisfy Test
CountRows(t, Test(_)) == Cardinality({i \in 1..Len(t) : Test(t[i])})

\* Python None for an optional integer argument
None == -1

\* the empty table map
NoData == [x \in {} |-> <<>>]

\* no call is running
NoLoc == [fn |-> "none"]

\* where control goes when generator fn returns: the next call, or the end
Follow(fn) ==
    IF \E i \in 1..(Len(args.calls) - 1) : args.calls[i] = fn
    THEN args.calls[(CHOOSE i \in 1..(Len(args.calls) - 1) : args.calls[i] = fn) + 1]
    ELSE "done"

----------------------------------------------------------------------------
(* Bounds of the model *)

MaxNumUsers == 24
MaxMinAdmins == 1

----------------------------------------------------------------------------
(* populate_user_table(num_users, min_admins) *)

\* max(num_users, min_admins * 20), then max of that and num_users
total_users_of(num_users, min_admins) ==
    Max(Max(num_users, min_admins * 20), num_users)

\* num_hosts = max(5, int(total_users * 0.25))
num_hosts_of(total_users) == Max(5, total_users \div 4)

\* mutant: the host quota is filled before the admin quota
user_type_hosts_first(l) ==
    IF l.host_count < l.num_hosts THEN "host"
    ELSE IF l.admin_count < l.num_admins THEN "admin"
    ELSE "guest"

\* the role of the next user: admin quota first, then host quota, then guest
user_type_of(l) ==
    IF l.admin_count < l.num_admins THEN "admin"
    ELSE IF l.host_count < l.num_hosts THEN "host"
    ELSE "guest"

populate_user_table_call ==
    /\ pc = "populate_user_table"
    /\ LET total == total_users_of(args.num_users, args.min_admins)
           hosts == num_hosts_of(total)
       IN loc' = [fn |-> "populate_user_table",
                  total_users |-> total,
                  num_admins  |-> args.min_admins,
                  num_hosts   |-> hosts,
                  num_guests  |-> total - (args.min_admins + hosts),
                  users       |-> <<>>,
                  guest_count |-> 0,
                  host_count  |-> 0,
                  admin_count |-> 0]
    /\ pc' = "user_loop"
    /\ UNCHANGED <<args, data>>

populate_user_table_row ==
    /\ pc = "user_loop"
    /\ Len(loc.users) < loc.total_users
    /\ LET t == user_type_of(loc)
           row == [UserID |-> Len(loc.users) + 1, UserType |-> t]
       IN loc' = [loc EXCEPT
                    !.users = Append(@, row),
                    !.admin_count = IF t = "admin" THEN @ + 1 ELSE @,
                    !.host_count  = IF t = "host" THEN @ + 1 ELSE @,
                    !.guest_count = IF t = "guest" THEN @ + 1 ELSE @]
    /\ UNCHANGED <<pc, args, data>>

\* the two assertions, then the DataFrame is returned; a failed assertion is
\* caught and the empty Users table is returned
populate_user_table_return ==
    /\ pc = "user_loop"
    /\ Len(loc.users) >= loc.total_users
    /\ LET ok == /\ loc.admin_count >= args.min_admins
                 /\ loc.host_count + loc.guest_count + loc.admin_count = loc.total_users
       IN data' = Put(data, "users", IF ok THEN loc.users ELSE <<>>)
    /\ pc' = Follow("populate_user_table")
    /\ UNCHANGED <<args, loc>>

InitUsers ==
    /\ pc = "populate_user_table"
    /\ \E n \in 0..MaxNumUsers, m \in 0..MaxMinAdmins :
         args = [calls |-> <<"populate_user_table">>,
                 num_users |-> n, min_admins |-> m]
    /\ data = NoData
    /\ loc = NoLoc

NextUsers ==
    \/ populate_user_table_call
    \/ populate_user_table_row
    \/ populate_user_table_return

SpecUsers == InitUsers /\ [][NextUsers]_vars

IsAdmin(r) == r.UserType = "admin"
IsHost(r) == r.UserType = "host"
IsGuest(r) == r.UserType = "guest"

UsersReturned == pc = "done" /\ "users" \in DOMAIN data

\* C8: the number of admins in the returned Users table is at least
\* max(5% of the number of generated users, min_admins).
C8_AdminsAtLeastFivePercent ==
    UsersReturned =>
        /\ 20 * CountRows(data["users"], IsAdmin) >= Len(data["users"])
        /\ CountRows(data["users"], IsAdmin) >= args.min_admins

\* C9: the number of hosts in the returned Users table is at least 25% of the
\* number of generated users, every non-admin non-host user is a guest, and
\* the three role counts sum to the total.
C9_HostsAtLeastQuarter ==
    UsersReturned =>
        /\ 4 * CountRows(data["users"], IsHost) >= Len(data["users"])
        /\ \A i \in 1..Len(data["users"]) :
             data["users"][i].UserType \in {"admin", "host", "guest"}
        /\ loc.guest_count >= 0
        /\ CountRows(data["users"], IsAdmin) + CountRows(data["users"], IsHost)
             + CountRows(data["users"], IsGuest) = Len(data["users"])

----------------------------------------------------------------------------
(* populate_country_table(num_countries) *)

MaxCountries == 2
MaxNumCities == 8

populate_country_table_call ==
    /\ pc = "populate_country_table"
    /\ loc' = [fn |-> "populate_country_table", countries |-> <<>>]
    /\ pc' = "country_loop"
    /\ UNCHANGED <<args, data>>

\* for i in range(num_countries): append CountryID i + 1
populate_country_table_row ==
    /\ pc = "country_loop"
    /\ Len(loc.countries) < args.num_countries
    /\ loc' = [loc EXCEPT !.countries = Append(@, [CountryID |-> Len(@) + 1])]
    /\ UNCHANGED <<pc, args, data>>

populate_country_table_return ==
    /\ pc = "country_loop"
    /\ Len(loc.countries) >= args.num_countries
    /\ data' = Put(data, "countries", loc.countries)
    /\ pc' = Follow("populate_country_table")
    /\ UNCHANGED <<args, loc>>

----------------------------------------------------------------------------
(* populate_city_table(df_countries, num_cities) *)

\* mutant: the requested count is dropped, the minimum is always used
num_cities_of_minimum_only(num_cities, num_countries) == num_countries * 3

\* num_cities after the adjustment to the minimum of 3 per country
num_cities_of(num_cities, num_countries) ==
    IF num_cities = None \/ num_cities < num_countries * 3
    THEN num_countries * 3
    ELSE num_cities

\* an empty countries table raises ValueError: the empty Cities table is
\* returned; otherwise the locals are set up for the first loop
populate_city_table_call ==
    /\ pc = "populate_city_table"
    /\ IF data["countries"] = <<>>
       THEN /\ data' = Put(data, "cities", <<>>)
            /\ pc' = Follow("populate_city_table")
            /\ loc' = [fn |-> "populate_city_table"]
       ELSE /\ loc' = [fn |-> "populate_city_table",
                       num_cities |-> num_cities_of(args.num_cities, Len(data["countries"])),
                       cities |-> <<>>,
                       city_id |-> 1,
                       country |-> 1,
                       k |-> 0,
                       remaining_cities |-> 0]
            /\ pc' = "city_floor_loop"
            /\ data' = data
    /\ UNCHANGED args

\* mutant: the inner loop runs twice instead of three times
populate_city_table_floor_row_twice ==
    /\ pc = "city_floor_loop"
    /\ loc.country <= Len(data["countries"])
    /\ LET row == [CityID |-> loc.city_id,
                   CountryID |-> data["countries"][loc.country].CountryID]
       IN loc' = [loc EXCEPT
                    !.cities = Append(@, row),
                    !.city_id = @ + 1,
                    !.k = IF @ + 1 < 2 THEN @ + 1 ELSE 0,
                    !.country = IF loc.k + 1 < 2 THEN @ ELSE @ + 1]
    /\ UNCHANGED <<pc, args, data>>

\* for each country, for _ in range(3): one city of that country
populate_city_table_floor_row ==
    /\ pc = "city_floor_loop"
    /\ loc.country <= Len(data["countries"])
    /\ LET row == [CityID |-> loc.city_id,
                   CountryID |-> data["countries"][loc.country].CountryID]
       IN loc' = [loc EXCEPT
                    !.cities = Append(@, row),
                    !.city_id = @ + 1,
                    !.k = IF @ + 1 < 3 THEN @ + 1 ELSE 0,
                    !.country = IF loc.k + 1 < 3 THEN @ ELSE @ + 1]
    /\ UNCHANGED <<pc, args, data>>

\* remaining_cities = num_cities - len(cities)
populate_city_table_remaining ==
    /\ pc = "city_floor_loop"
    /\ loc.country > Len(data["countries"])
    /\ loc' = [loc EXCEPT !.remaining_cities = loc.num_cities - Len(loc.cities)]
    /\ pc' = "city_extra_loop"
    /\ UNCHANGED <<args, data>>

\* while remaining_cities > 0: one city of a randomly sampled country
populate_city_table_extra_row ==
    /\ pc = "city_extra_loop"
    /\ loc.remaining_cities > 0
    /\ \E c \in 1..Len(data["countries"]) :
         LET row == [CityID |-> loc.city_id,
                     CountryID |-> data["countries"][c].CountryID]
         IN loc' = [loc EXCEPT
                      !.cities = Append(@, row),
                      !.city_id = @ + 1,
                      !.remaining_cities = @ - 1]
    /\ UNCHANGED <<pc, args, data>>

populate_city_table_return ==
    /\ pc = "city_extra_loop"
    /\ loc.remaining_cities <= 0
    /\ data' = Put(data, "cities", loc.cities)
    /\ pc' = Follow("populate_city_table")
    /\ UNCHANGED <<args, loc>>

InitCities ==
    /\ pc = "populate_country_table"
    /\ \E n \in 0..MaxCountries, c \in {None} \cup 0..MaxNumCities :
         args = [calls |-> <<"populate_country_table", "populate_city_table">>,
                 num_countries |-> n, num_cities |-> c]
    /\ data = NoData
    /\ loc = NoLoc

NextCities ==
    \/ populate_country_table_call
    \/ populate_country_table_row
    \/ populate_country_table_return
    \/ populate_city_table_call
    \/ populate_city_table_floor_row
    \/ populate_city_table_remaining
    \/ populate_city_table_extra_row
    \/ populate_city_table_return

SpecCities == InitCities /\ [][NextCities]_vars

CitiesReturned == pc = "done" /\ "cities" \in DOMAIN data

\* the number of cities of country c in table t
CitiesOf(t, c) == Cardinality({i \in 1..Len(t) : t[i].CountryID = c})

\* C6: for a non-empty countries table and any num_cities, every country has
\* at least 3 cities in the returned Cities table and every city's CountryID
\* is an id of the countries table.
C6_ThreeCitiesPerCountry ==
    (CitiesReturned /\ data["countries"] # <<>>) =>
        /\ \A c \in Column(data["countries"], "CountryID") :
             CitiesOf(data["cities"], c) >= 3
        /\ Column(data["cities"], "CountryID") \subseteq Column(data["countries"], "CountryID")

\* witness of C6: two countries, cities beyond the minimum, unevenly spread
C6_Witness ==
    /\ CitiesReturned
    /\ Len(data["countries"]) = 2
    /\ CitiesOf(data["cities"], 1) = 5
    /\ CitiesOf(data["cities"], 2) = 3

\* the ids of table t in column col are 1..Len(t) in row order
DenseIds(t, col) == \A i \in 1..Len(t) : t[i][col] = i

\* C7 as stated: n countries with ids 1..n, then exactly max(num_cities, 3n)
\* cities (3n when num_cities is None) with CityID 1..count in row order.
C7_Original ==
    CitiesReturned =>
        /\ Len(data["countries"]) = args.num_countries
        /\ DenseIds(data["countries"], "CountryID")
        /\ Len(data["cities"]) =
             (IF args.num_cities = None THEN 3 * args.num_countries
              ELSE Max(args.num_cities, 3 * args.num_countries))
        /\ DenseIds(data["cities"], "CityID")

\* C7 amended: the same for n >= 1; for n = 0 the Cities table is empty.
C7_CountryAndCityCounts ==
    CitiesReturned =>
        /\ Len(data["countries"]) = args.num_countries
        /\ DenseIds(data["countries"], "CountryID")
        /\ Len(data["cities"]) =
             (IF args.num_countries = 0 THEN 0
              ELSE IF args.num_cities = None THEN 3 * args.num_countries
              ELSE Max(args.num_cities, 3 * args.num_countries))
        /\ DenseIds(data["cities"], "CityID")

\* witness of C7: one country and no explicit count give exactly 3 cities
C7_Witness ==
    /\ CitiesReturned
    /\ args.num_countries = 1
    /\ args.num_cities = None
    /\ Len(data["cities"]) = 3

----------------------------------------------------------------------------
(* populate_accommodation_table(users_df, cities_df, countries_df,         *)
(*                              num_accommodations)                        *)

MaxUserRows == 2
MaxNumAccommodations == 1

\* round(random.uniform(50, 500), 2), in cents
PricePerNightDraws == 5000..50000

\* the ids in column col of table t, in row order (df[col].tolist())
RECURSIVE ToList(_, _)
ToList(t, col) ==
    IF t = <<>> THEN <<>> ELSE <<Head(t)[col]>> \o ToList(Tail(t), col)

\* mutant: every non-guest user is taken as a host
valid_hosts_not_guest(users_df) ==
    ToList(SelectSeq(users_df, LAMBDA r : r.UserType # "guest"), "UserID")

\* valid_hosts = users_df[users_df["UserType"] == "host"]["UserID"].tolist()
valid_hosts_of(users_df) ==
    ToList(SelectSeq(users_df, LAMBDA r : r.UserType = "host"), "UserID")

\* no host, or no city, or no country raises ValueError: the empty
\* Accommodations table is returned
populate_accommodation_table_call ==
    /\ pc = "populate_accommodation_table"
    /\ LET valid_hosts == valid_hosts_of(data["users"])
           city_ids == ToList(data["cities"], "CityID")
           country_ids == ToList(data["countries"], "CountryID")
       IN IF valid_hosts = <<>> \/ city_ids = <<>> \/ country_ids = <<>>
          THEN /\ data' = Put(data, "accommodations", <<>>)
               /\ pc' = Follow("populate_accommodation_table")
               /\ loc' = [fn |-> "populate_accommodation_table"]
          ELSE /\ loc' = [fn |-> "populate_accommodation_table",
                          valid_hosts |-> valid_hosts,
                          city_ids |-> city_ids,
                          country_ids |-> country_ids,
                          accommodations |-> <<>>]
               /\ pc' = "accommodation_loop"
               /\ data' = data
    /\ UNCHANGED args

\* for accommodation_id in range(1, num_accommodations + 1): host, city,
\* country and price are independent random draws
populate_accommodation_table_row ==
    /\ pc = "accommodation_loop"
    /\ Len(loc.accommodations) < args.num_accommodations
    /\ \E h \in Range(loc.valid_hosts), ci \in Range(loc.city_ids),
          co \in Range(loc.country_ids), price \in PricePerNightDraws :
         loc' = [loc EXCEPT !.accommodations =
                    Append(@, [AccommodationID |-> Len(@) + 1,
                               HostID |-> h,
                               CityID |-> ci,
                               CountryID |-> co,
                               PricePerNight |-> price])]
    /\ UNCHANGED <<pc, args, data>>

populate_accommodation_table_return ==
    /\ pc = "accommodation_loop"
    /\ Len(loc.accommodations) >= args.num_accommodations
    /\ data' = Put(data, "accommodations", loc.accommodations)
    /\ pc' = Follow("populate_accommodation_table")
    /\ UNCHANGED <<args, loc>>

\* Users tables of n rows with UserID 1..n and any roles
UserTables(n) ==
    {[i \in 1..n |-> [UserID |-> i, UserType |-> f[i]]] :
        f \in [1..n -> {"admin", "host", "guest"}]}

\* the Countries table of populate_country_table(num_countries = n)
CountryTable(n) == [i \in 1..n |-> [CountryID |-> i]]

\* the Cities table of populate_city_table for n countries and no num_cities
CityTable(n) ==
    [i \in 1..(3 * n) |-> [CityID |-> i, CountryID |-> ((i - 1) \div 3) + 1]]

InitAccommodations ==
    /\ pc = "populate_accommodation_table"
    /\ \E n \in 0..MaxNumAccommodations :
         args = [calls |-> <<"populate_accommodation_table">>,
                 num_accommodations |-> n]
    /\ \E u \in 0..MaxUserRows, c \in 0..MaxCountries :
         \E users \in UserTables(u), cities \in {<<>>, CityTable(c)} :
            data = [users |-> users, countries |-> CountryTable(c), cities |-> cities]
    /\ loc = NoLoc

NextAccommodations ==
    \/ populate_accommodation_table_call
    \/ populate_accommodation_table_row
    \/ populate_accommodation_table_return

SpecAccommodations == InitAccommodations /\ [][NextAccommodations]_vars

AccommodationsReturned == pc = "done" /\ "accommodations" \in DOMAIN data

\* the UserIDs of the users of table t with role = host
HostIds(t) == {t[i].UserID : i \in {j \in 1..Len(t) : t[j].UserType = "host"}}

\* C1: every HostID of the returned Accommodations table is the UserID of a
\* user whose UserType is 'host'; with no host the table is empty.
C1_HostIdIsHost ==
    AccommodationsReturned =>
        /\ Column(data["accommodations"], "HostID") \subseteq HostIds(data["users"])
        /\ (HostIds(data["users"]) = {} => data["accommodations"] = <<>>)

\* witness of C1: an accommodation whose host is user 2, in a users table
\* whose user 1 is not a host
C1_Witness ==
    /\ AccommodationsReturned
    /\ Len(data["accommodations"]) = 1
    /\ Column(data["accommodations"], "HostID") = {2}
    /\ HostIds(data["users"]) # Column(data["users"], "UserID")

----------------------------------------------------------------------------
(* populate_accommodation_house_rule_table(accommodations_df,              *)
(*     house_rules_df, total_entries)                                      *)
(* populate_accommodation_amenity_table(accommodations, amenities,         *)
(*     total_entries)                                                      *)

MaxLinkParents == 2
MaxLinkChildren == 2
MaxTotalEntries == 5

\* every ordering of the finite set S as a sequence (the iteration order of
\* a Python set is not fixed by the program)
RECURSIVE Orderings(_)
Orderings(S) ==
    IF S = {} THEN {<<>>}
    ELSE UNION {{<<x>> \o p : p \in Orderings(S \ {x})} : x \in S}

populate_accommodation_house_rule_table_call ==
    /\ pc = "populate_accommodation_house_rule_table"
    /\ IF data["accommodations"] = <<>> \/ data["house_rules"] = <<>>
       THEN /\ data' = Put(data, "accommodation_house_rules", <<>>)
            /\ pc' = Follow("populate_accommodation_house_rule_table")
            /\ loc' = [fn |-> "populate_accommodation_house_rule_table"]
       ELSE /\ loc' = [fn |-> "populate_accommodation_house_rule_table",
                       accommodations |-> ToList(data["accommodations"], "AccommodationID"),
                       house_rules |-> ToList(data["house_rules"], "HouseRuleID"),
                       accommodation_house_rules |-> {},
                       total_entries |-> args.total_entries,
                       i |-> 1]
            /\ pc' = "house_rule_cover_loop"
            /\ data' = data
    /\ UNCHANGED args

\* for accommodation_id in accommodations: one random rule, total_entries
\* -= 1, break when total_entries <= 0
populate_accommodation_house_rule_table_cover ==
    /\ pc = "house_rule_cover_loop"
    /\ \E rule \in Range(loc.house_rules) :
         loc' = [loc EXCEPT
                   !.accommodation_house_rules = @ \cup {<<loc.accommodations[loc.i], rule>>},
                   !.total_entries = @ - 1,
                   !.i = @ + 1]
    /\ pc' = IF loc.total_entries - 1 <= 0 \/ loc.i = Len(loc.accommodations)
             THEN "house_rule_topup_loop"
             ELSE "house_rule_cover_loop"
    /\ UNCHANGED <<args, data>>

\* while total_entries > 0: a random pair, added only if it is not in the set
populate_accommodation_house_rule_table_topup ==
    /\ pc = "house_rule_topup_loop"
    /\ loc.total_entries > 0
    /\ \E a \in Range(loc.accommodations), rule \in Range(loc.house_rules) :
         IF <<a, rule>> \notin loc.accommodation_house_rules
         THEN loc' = [loc EXCEPT
                        !.accommodation_house_rules = @ \cup {<<a, rule>>},
                        !.total_entries = @ - 1]
         ELSE loc' = loc
    /\ UNCHANGED <<pc, args, data>>

\* the set is turned into rows, in the set's iteration order
populate_accommodation_house_rule_table_return ==
    /\ pc = "house_rule_topup_loop"
    /\ loc.total_entries <= 0
    /\ \E order \in Orderings(loc.accommodation_house_rules) :
         data' = Put(data, "accommodation_house_rules",
                     [k \in 1..Len(order) |->
                        [AccommodationID |-> order[k][1], HouseRuleID |-> order[k][2]]])
    /\ pc' = Follow("populate_accommodation_house_rule_table")
    /\ UNCHANGED <<args, loc>>

populate_accommodation_amenity_table_call ==
    /\ pc = "populate_accommodation_amenity_table"
    /\ IF data["accommodations"] = <<>> \/ data["amenities"] = <<>>
       THEN /\ data' = Put(data, "accommodation_amenities", <<>>)
            /\ pc' = Follow("populate_accommodation_amenity_table")
            /\ loc' = [fn |-> "populate_accommodation_amenity_table"]
       ELSE /\ loc' = [fn |-> "populate_accommodation_amenity_table",
                       accommodation_amenities |-> <<>>,
                       accommodation_amenity_id |-> 1,
                       remaining_entries |-> args.total_entries,
                       i |-> 1]
            /\ pc' = "amenity_cover_loop"
            /\ data' = data
    /\ UNCHANGED args

\* for each accommodation row: random.sample(amenity ids, k=1), one row,
\* remaining_entries -= 1, break when remaining_entries <= 0
populate_accommodation_amenity_table_cover ==
    /\ pc = "amenity_cover_loop"
    /\ \E amenity \in Column(data["amenities"], "AmenityID") :
         loc' = [loc EXCEPT
                   !.accommodation_amenities =
                      Append(@, [AccommodationAmenityID |-> loc.accommodation_amenity_id,
                                 AccommodationID |-> data["accommodations"][loc.i].AccommodationID,
                                 AmenityID |-> amenity]),
                   !.accommodation_amenity_id = @ + 1,
                   !.remaining_entries = @ - 1,
                   !.i = @ + 1]
    /\ pc' = IF loc.remaining_entries - 1 <= 0 \/ loc.i = Len(data["accommodations"])
             THEN "amenity_topup_loop"
             ELSE "amenity_cover_loop"
    /\ UNCHANGED <<args, data>>

\* the pair (a, m) is already linked
AmenityLinked(rows, a, m) ==
    \E k \in 1..Len(rows) : rows[k].AccommodationID = a /\ rows[k].AmenityID = m

\* mutant: the top-up appends the drawn pair without looking for it
populate_accommodation_amenity_table_topup_unchecked ==
    /\ pc = "amenity_topup_loop"
    /\ loc.remaining_entries > 0
    /\ \E a \in Column(data["accommodations"], "AccommodationID"),
          m \in Column(data["amenities"], "AmenityID") :
         loc' = [loc EXCEPT
                   !.accommodation_amenities =
                      Append(@, [AccommodationAmenityID |-> loc.accommodation_amenity_id,
                                 AccommodationID |-> a,
                                 AmenityID |-> m]),
                   !.accommodation_amenity_id = @ + 1,
                   !.remaining_entries = @ - 1]
    /\ UNCHANGED <<pc, args, data>>

\* while remaining_entries > 0: a random pair, appended only if no row holds it
populate_accommodation_amenity_table_topup ==
    /\ pc = "amenity_topup_loop"
    /\ loc.remaining_entries > 0
    /\ \E a \in Column(data["accommodations"], "AccommodationID"),
          m \in Column(data["amenities"], "AmenityID") :
         IF ~AmenityLinked(loc.accommodation_amenities, a, m)
         THEN loc' = [loc EXCEPT
                        !.accommodation_amenities =
                           Append(@, [AccommodationAmenityID |-> loc.accommodation_amenity_id,
                                      AccommodationID |-> a,
                                      AmenityID |-> m]),
                        !.accommodation_amenity_id = @ + 1,
                        !.remaining_entries = @ - 1]
         ELSE loc' = loc
    /\ UNCHANGED <<pc, args, data>>

populate_accommodation_amenity_table_return ==
    /\ pc = "amenity_topup_loop"
    /\ loc.remaining_entries <= 0
    /\ data' = Put(data, "accommodation_amenities", loc.accommodation_amenities)
    /\ pc' = Follow("populate_accommodation_amenity_table")
    /\ UNCHANGED <<args, loc>>

\* an Accommodations table of n rows with AccommodationID 1..n, the prices
\* 333.33 and 100.00 alternating
AccommodationTable(n) ==
    [i \in 1..n |-> [AccommodationID |-> i, HostID |-> 1, CityID |-> 1,
                     CountryID |-> 1,
                     PricePerNight |-> IF i % 2 = 1 THEN 33333 ELSE 10000]]

\* the HouseRules and Amenities tables, n rows with ids 1..n
HouseRuleTable(n) == [i \in 1..n |-> [HouseRuleID |-> i]]
AmenityTable(n) == [i \in 1..n |-> [AmenityID |-> i]]

InitLinks ==
    /\ \E fn \in {"populate_accommodation_house_rule_table",
                  "populate_accommodation_amenity_table"},
          t \in 0..MaxTotalEntries :
         /\ pc = fn
         /\ args = [calls |-> <<fn>>, total_entries |-> t]
    /\ \E a \in 0..MaxLinkParents, c \in 0..MaxLinkChildren :
         data = [accommodations |-> AccommodationTable(a),
                 house_rules |-> HouseRuleTable(c),
                 amenities |-> AmenityTable(c)]
    /\ loc = NoLoc

NextLinks ==
    \/ populate_accommodation_house_rule_table_call
    \/ populate_accommodation_house_rule_table_cover
    \/ populate_accommodation_house_rule_table_topup
    \/ populate_accommodation_house_rule_table_return
    \/ populate_accommodation_amenity_table_call
    \/ populate_accommodation_amenity_table_cover
    \/ populate_accommodation_amenity_table_topup
    \/ populate_accommodation_amenity_table_return

SpecLinks == InitLinks /\ [][NextLinks]_vars

\* the link table the call returned, and the name of its child id column
LinkTable ==
    IF "accommodation_house_rules" \in DOMAIN data
    THEN data["accommodation_house_rules"]
    ELSE data["accommodation_amenities"]

ChildColumn ==
    IF "accommodation_house_rules" \in DOMAIN data THEN "HouseRuleID" ELSE "AmenityID"

ChildTable ==
    IF "accommodation_house_rules" \in DOMAIN data
    THEN data["house_rules"] ELSE data["amenities"]

LinksReturned ==
    /\ pc = "done"
    /\ \/ "accommodation_house_rules" \in DOMAIN data
       \/ "accommodation_amenities" \in DOMAIN data

\* no two rows of t hold the same (AccommodationID, child id) pair
NoDuplicatePair(t, col) ==
    \A i, j \in 1..Len(t) :
        (t[i].AccommodationID = t[j].AccommodationID /\ t[i][col] = t[j][col]) => i = j

\* C4: for non-empty accommodation and child id sets and total_entries >=
\* count(accommodations), the returned link table has no duplicate pair and
\* holds every accommodation id at least once.
C4_LinksUniqueAndCovering ==
    (/\ LinksReturned
     /\ data["accommodations"] # <<>>
     /\ ChildTable # <<>>
     /\ args.total_entries >= Len(data["accommodations"])) =>
        /\ NoDuplicatePair(LinkTable, ChildColumn)
        /\ Column(data["accommodations"], "AccommodationID")
             \subseteq Column(LinkTable, "AccommodationID")

\* witness of C4: two accommodations, two amenities, the top-up loop added
\* two pairs to the two of the first loop
C4_Witness ==
    /\ LinksReturned
    /\ "accommodation_amenities" \in DOMAIN data
    /\ Len(data["accommodations"]) = 2
    /\ Len(data["amenities"]) = 2
    /\ Len(LinkTable) = 4

\* the link loops are running and every (accommodation, child) pair is linked
LinkPairsExhausted ==
    \/ /\ pc = "house_rule_topup_loop"
       /\ Cardinality(loc.accommodation_house_rules)
            = Len(loc.accommodations) * Len(loc.house_rules)
    \/ /\ pc = "amenity_topup_loop"
       /\ Len(loc.accommodation_amenities)
            = Len(data["accommodations"]) * Len(data["amenities"])

\* the top-up loop's condition is false: the loop is left
LinkLoopStops ==
    \/ pc = "house_rule_topup_loop" /\ loc.total_entries <= 0
    \/ pc = "amenity_topup_loop" /\ loc.remaining_entries <= 0

\* C5: the link generators terminate, the top-up loop stopping when no
\* unassigned pair remains, and the number of rows returned is total_entries,
\* or count(accommodations) x count(children) when total_entries is larger.
C5_LinksTerminateWithQuota ==
    /\ LinkPairsExhausted => LinkLoopStops
    /\ (LinksReturned /\ data["accommodations"] # <<>> /\ ChildTable # <<>>) =>
          Len(LinkTable) = Min(args.total_entries,
                               Len(data["accommodations"]) * Len(ChildTable))

----------------------------------------------------------------------------
(* populate_booking_table(df_users, df_accommodations,                     *)
(*     max_bookings_per_guest, max_total_bookings_multiplier)              *)

MaxGuests == 1
MaxBookingsPerGuest == 1
MaxBookingAccommodations == 2
MaxSampledAccommodations == 1

\* start_date = date(2024, 6, 1) and end_date = date(2024, 6, 30)
start_date == 153
end_date == 182

\* values of max_total_bookings_multiplier explored, in halves (1.5 = 3):
\* 0.5 and the default 1.5. A whole number of halves is a float without
\* rounding error, and so is its product with a number of guests
MultiplierDraws == {1, 3}

\* round(random.uniform(0, 20), 2), in hundredths of a percent (10.0 = 1000)
DiscountDraws == 0..2000

\* fake.date_between(a, b) returns a date of [a, b]
DateBetween(a, b) == a..b

\* mutant: the product is rounded up
max_total_bookings_rounded_up(total_guests, multiplier_halves) ==
    (total_guests * multiplier_halves + 1) \div 2

\* max_total_bookings = int(total_guests * max_total_bookings_multiplier),
\* the multiplier in halves
max_total_bookings_of(total_guests, multiplier_halves) ==
    (total_guests * multiplier_halves) \div 2

\* mutant: the latest check-out is not clamped to the end of the window
max_checkout_date_unclamped(check_in_date) == check_in_date + 7

\* max_checkout_date = min(check_in_date + timedelta(days=7), end_date)
max_checkout_date_of(check_in_date) == Min(check_in_date + 7, end_date)

\* mutant: the nights are counted with both ends included
num_nights_inclusive(check_in_date, check_out_date) ==
    check_out_date - check_in_date + 1

\* num_nights = (check_out_date - check_in_date).days
num_nights_of(check_in_date, check_out_date) == check_out_date - check_in_date

\* total_amount = round(base_amount - (base_amount * (discount / 100)), 2),
\* base_amount in cents, discount in hundredths of a percent: the cent
\* nearest to base_amount - base_amount * discount / 10000; when that lies
\* exactly between two cents the float that stands for it decides, so either
\* neighbour is possible
total_amount_of(base_amount, discount) ==
    LET x == base_amount * discount
        q == x \div 10000
        r == x % 10000
    IN IF r < 5000 THEN {base_amount - q}
       ELSE IF r > 5000 THEN {base_amount - q - 1}
       ELSE {base_amount - q, base_amount - q - 1}

\* no guest raises ValueError: the empty Bookings table is returned
populate_booking_table_call ==
    /\ pc = "populate_booking_table"
    /\ LET guests == SelectSeq(data["users"], LAMBDA r : r.UserType = "guest")
       IN IF guests = <<>>
          THEN /\ data' = Put(data, "bookings", <<>>)
               /\ pc' = Follow("populate_booking_table")
               /\ loc' = [fn |-> "populate_booking_table"]
          ELSE /\ loc' = [fn |-> "populate_booking_table",
                          guests |-> guests,
                          max_total_bookings |->
                             max_total_bookings_of(Len(guests), args.max_total_bookings_multiplier),
                          bookings |-> <<>>,
                          booking_id |-> 1,
                          guest |-> 0,
                          num_bookings |-> 0,
                          k |-> 0]
               /\ pc' = "booking_guest_loop"
               /\ data' = data
    /\ UNCHANGED args

\* for _, guest in guests.iterrows(): num_bookings = random.randint(1, max);
\* random.randint(1, max) of an empty range raises ValueError: the empty
\* Bookings table is returned
populate_booking_table_guest ==
    /\ pc = "booking_guest_loop"
    /\ loc.guest < Len(loc.guests)
    /\ IF args.max_bookings_per_guest < 1
       THEN /\ data' = Put(data, "bookings", <<>>)
            /\ pc' = Follow("populate_booking_table")
            /\ loc' = loc
       ELSE /\ \E n \in 1..args.max_bookings_per_guest :
                 loc' = [loc EXCEPT !.guest = @ + 1, !.num_bookings = n, !.k = 0]
            /\ pc' = "booking_attempt_loop"
            /\ data' = data
    /\ UNCHANGED args

\* for _ in range(num_bookings) is exhausted: on to the next guest
populate_booking_table_guest_done ==
    /\ pc = "booking_attempt_loop"
    /\ loc.k >= loc.num_bookings
    /\ pc' = "booking_guest_loop"
    /\ UNCHANGED <<args, data, loc>>

\* if len(bookings) >= max_total_bookings: break
populate_booking_table_cap ==
    /\ pc = "booking_attempt_loop"
    /\ loc.k < loc.num_bookings
    /\ Len(loc.bookings) >= loc.max_total_bookings
    /\ pc' = "booking_guest_loop"
    /\ UNCHANGED <<args, data, loc>>

\* random.random() > 0.3 is false: this iteration books nothing
populate_booking_table_no_booking ==
    /\ pc = "booking_attempt_loop"
    /\ loc.k < loc.num_bookings
    /\ Len(loc.bookings) < loc.max_total_bookings
    /\ loc' = [loc EXCEPT !.k = @ + 1]
    /\ UNCHANGED <<pc, args, data>>

\* df_accommodations.sample(1) of an empty table raises ValueError: the
\* rows built so far are dropped and the empty Bookings table is returned
populate_booking_table_sample_error ==
    /\ pc = "booking_attempt_loop"
    /\ loc.k < loc.num_bookings
    /\ Len(loc.bookings) < loc.max_total_bookings
    /\ data["accommodations"] = <<>>
    /\ data' = Put(data, "bookings", <<>>)
    /\ pc' = Follow("populate_booking_table")
    /\ UNCHANGED <<args, loc>>

\* an accommodation and the two dates are drawn; num_nights <= 0: continue
populate_booking_table_skip ==
    /\ pc = "booking_attempt_loop"
    /\ loc.k < loc.num_bookings
    /\ Len(loc.bookings) < loc.max_total_bookings
    /\ data["accommodations"] # <<>>
    /\ \E check_in_date \in DateBetween(start_date, end_date) :
         \E check_out_date \in DateBetween(check_in_date, max_checkout_date_of(check_in_date)) :
            num_nights_of(check_in_date, check_out_date) <= 0
    /\ loc' = [loc EXCEPT !.k = @ + 1]
    /\ UNCHANGED <<pc, args, data>>

\* an accommodation, the two dates, the discount and the two statuses are
\* drawn and the booking is appended
populate_booking_table_row ==
    /\ pc = "booking_attempt_loop"
    /\ loc.k < loc.num_bookings
    /\ Len(loc.bookings) < loc.max_total_bookings
    /\ \E a \in 1..Len(data["accommodations"]) :
       \E check_in_date \in DateBetween(start_date, end_date) :
       \E check_out_date \in DateBetween(check_in_date, max_checkout_date_of(check_in_date)) :
       \E discount \in DiscountDraws \cup {0} :
       \E booking_status \in {"confirmed", "cancelled", "pending"} :
       \E payment_status \in {"paid", "unpaid", "failed"} :
         LET accommodation == data["accommodations"][a]
             num_nights == num_nights_of(check_in_date, check_out_date)
             base_amount == num_nights * accommodation.PricePerNight
         IN /\ num_nights > 0
            /\ \E total_amount \in total_amount_of(base_amount, discount) :
                 loc' = [loc EXCEPT
                           !.bookings =
                              Append(@, [BookingID |-> loc.booking_id,
                                         GuestID |-> loc.guests[loc.guest].UserID,
                                         AccommodationID |-> accommodation.AccommodationID,
                                         CheckInDate |-> check_in_date,
                                         CheckOutDate |-> check_out_date,
                                         TotalAmount |-> total_amount,
                                         BookingStatus |-> booking_status,
                                         DiscountApplied |-> discount,
                                         PaymentStatus |-> payment_status]),
                           !.booking_id = @ + 1,
                           !.k = @ + 1]
    /\ UNCHANGED <<pc, args, data>>

populate_booking_table_return ==
    /\ pc = "booking_guest_loop"
    /\ loc.guest >= Len(loc.guests)
    /\ data' = Put(data, "bookings", loc.bookings)
    /\ pc' = Follow("populate_booking_table")
    /\ UNCHANGED <<args, loc>>

\* a Users table of one host followed by g guests
GuestTable(g) ==
    [i \in 1..(g + 1) |->
        [UserID |-> i, UserType |-> IF i = 1 THEN "host" ELSE "guest"]]

InitBookings ==
    /\ pc = "populate_booking_table"
    /\ \E p \in 0..MaxBookingsPerGuest, m \in MultiplierDraws :
         args = [calls |-> <<"populate_booking_table">>,
                 max_bookings_per_guest |-> p,
                 max_total_bookings_multiplier |-> m]
    /\ \E g \in 0..MaxGuests, a \in 0..MaxSampledAccommodations :
         data = [users |-> GuestTable(g), accommodations |-> AccommodationTable(a)]
    /\ loc = NoLoc

NextBookings ==
    \/ populate_booking_table_call
    \/ populate_booking_table_guest
    \/ populate_booking_table_guest_done
    \/ populate_booking_table_cap
    \/ populate_booking_table_no_booking
    \/ populate_booking_table_sample_error
    \/ populate_booking_table_skip
    \/ populate_booking_table_row
    \/ populate_booking_table_return

SpecBookings == InitBookings /\ [][NextBookings]_vars

BookingsReturned == pc = "done" /\ "bookings" \in DOMAIN data

\* the bookings appended so far by the running call, or the table returned
BookingRows ==
    IF "bookings" \in DOMAIN data THEN data["bookings"]
    ELSE IF "bookings" \in DOMAIN loc THEN loc.bookings
    ELSE <<>>

\* C2: every booking has CheckInDate < CheckOutDate, both dates in the window
\* 2024-06-01..2024-06-30 and CheckOutDate at most 7 days after CheckInDate
\* (so a draw of zero nights is never appended).
C2_BookingDatesInWindow ==
    \A i \in 1..Len(BookingRows) :
        LET b == BookingRows[i]
        IN /\ b.CheckInDate < b.CheckOutDate
           /\ start_date <= b.CheckInDate
           /\ b.CheckOutDate <= end_date
           /\ b.CheckOutDate <= b.CheckInDate + 7

\* witness of C2: the returned table holds a booking from 2024-06-29 to the
\* window's last day, 2024-06-30: the latest check-out, seven days after the
\* check-in, was clamped to the end of the window
C2_Witness ==
    /\ BookingsReturned
    /\ \E i \in 1..Len(data["bookings"]) :
         /\ data["bookings"][i].CheckOutDate = end_date
         /\ data["bookings"][i].CheckInDate = end_date - 1

\* C10: every booking's TotalAmount is nights x PricePerNight x
\* (1 - DiscountApplied/100) rounded to the cent, with nights = CheckOutDate -
\* CheckInDate, the price that of the referenced accommodation and
\* DiscountApplied in [0, 20].
C10_TotalAmountFormula ==
    \A i \in 1..Len(BookingRows) :
        LET b == BookingRows[i]
        IN /\ b.DiscountApplied >= 0
           /\ b.DiscountApplied <= 2000
           /\ \E k \in 1..Len(data["accommodations"]) :
                LET a == data["accommodations"][k]
                    full == (b.CheckOutDate - b.CheckInDate) * a.PricePerNight
                    \* 10000 x (TotalAmount - full x (1 - DiscountApplied/100))
                    error == full * b.DiscountApplied - (full - b.TotalAmount) * 10000
                IN /\ a.AccommodationID = b.AccommodationID
                   /\ error <= 5000
                   /\ error >= -5000

\* witness of C10: a discount of 10 on 3 nights at 333.33 per night gives
\* 899.99 (899.991 rounded to the cent)
C10_Witness ==
    /\ BookingsReturned
    /\ \E i \in 1..Len(data["bookings"]) :
         LET b == data["bookings"][i]
         IN /\ b.AccommodationID = 1
            /\ b.CheckOutDate - b.CheckInDate = 3
            /\ b.DiscountApplied = 1000
            /\ b.TotalAmount = 89999

----------------------------------------------------------------------------
(* populate_availability_table(df_accommodations, df_bookings) *)

MaxAvailabilityBookings == 2

\* start_date = date(2024, 6, 1) and end_date = date(2024, 6, 30) of the
\* availability calendar
availability_start_date == 153
availability_end_date == 182

\* mutant: the check-out day is marked too
marked_days_inclusive(booking) ==
    {booking.CheckInDate + d : d \in 0..(booking.CheckOutDate - booking.CheckInDate)}

\* the days marked for one booking:
\* for d in range((check_out_date - check_in_date).days): check_in_date + d
marked_days_of(booking) ==
    {booking.CheckInDate + d : d \in 0..(booking.CheckOutDate - booking.CheckInDate - 1)}

\* confirmed_bookings of one accommodation
confirmed_bookings_of(df_bookings, accommodation_id) ==
    SelectSeq(df_bookings,
              LAMBDA b : b.AccommodationID = accommodation_id
                         /\ b.BookingStatus = "confirmed")

\* availability_dates of one accommodation: every day of the calendar starts
\* True and is set False when a confirmed booking marks it
availability_dates_of(df_bookings, accommodation_id) ==
    LET confirmed == confirmed_bookings_of(df_bookings, accommodation_id)
    IN [day \in availability_start_date..availability_end_date |->
          ~ \E k \in 1..Len(confirmed) : day \in marked_days_of(confirmed[k])]

\* an empty Accommodations or Bookings table raises ValueError: the empty
\* Availability table is returned
populate_availability_table_call ==
    /\ pc = "populate_availability_table"
    /\ IF data["accommodations"] = <<>> \/ data["bookings"] = <<>>
       THEN /\ data' = Put(data, "availability", <<>>)
            /\ pc' = Follow("populate_availability_table")
            /\ loc' = [fn |-> "populate_availability_table"]
       ELSE /\ loc' = [fn |-> "populate_availability_table",
                       availability |-> <<>>,
                       i |-> 1]
            /\ pc' = "availability_loop"
            /\ data' = data
    /\ UNCHANGED args

\* for _, accommodation in df_accommodations.iterrows(): one row per day of
\* the calendar, in date order
populate_availability_table_accommodation ==
    /\ pc = "availability_loop"
    /\ loc.i <= Len(data["accommodations"])
    /\ LET accommodation_id == data["accommodations"][loc.i].AccommodationID
           availability_dates == availability_dates_of(data["bookings"], accommodation_id)
           days == availability_end_date - availability_start_date + 1
           rows == [k \in 1..days |->
                      [AccommodationID |-> accommodation_id,
                       Date |-> availability_start_date + k - 1,
                       IsAvailable |-> availability_dates[availability_start_date + k - 1]]]
       IN loc' = [loc EXCEPT !.availability = @ \o rows, !.i = @ + 1]
    /\ UNCHANGED <<pc, args, data>>

populate_availability_table_return ==
    /\ pc = "availability_loop"
    /\ loc.i > Len(data["accommodations"])
    /\ data' = Put(data, "availability", loc.availability)
    /\ pc' = Follow("populate_availability_table")
    /\ UNCHANGED <<args, loc>>

\* stays (check-in, check-out) of bookings that populate_booking_table can
\* produce: two that overlap, two that are adjacent, one at the window's end
BookingStays ==
    {<<start_date, start_date + 1>>, <<start_date, start_date + 2>>,
     <<start_date + 2, start_date + 4>>, <<end_date - 1, end_date>>}

\* a booking row without discount of guest 2, as populate_booking_table
\* appends it
BookingRow(id, accommodation_id, stay, booking_status, payment_status) ==
    [BookingID |-> id,
     GuestID |-> 2,
     AccommodationID |-> accommodation_id,
     CheckInDate |-> stay[1],
     CheckOutDate |-> stay[2],
     TotalAmount |-> (stay[2] - stay[1])
                        * (IF accommodation_id % 2 = 1 THEN 33333 ELSE 10000),
     BookingStatus |-> booking_status,
     DiscountApplied |-> 0,
     PaymentStatus |-> payment_status]

\* the Bookings tables of n rows over accommodations 1..a with any stays and
\* booking statuses, all paid
BookingTables(n, a) ==
    {[i \in 1..n |-> BookingRow(i, f[i][1], f[i][2], f[i][3], "paid")] :
        f \in [1..n -> (1..a) \X BookingStays \X {"confirmed", "cancelled", "pending"}]}

InitAvailability ==
    /\ pc = "populate_availability_table"
    /\ args = [calls |-> <<"populate_availability_table">>]
    /\ \E a \in 0..MaxBookingAccommodations, n \in 0..MaxAvailabilityBookings :
         \E bookings \in BookingTables(n, MaxBookingAccommodations) :
            data = [accommodations |-> AccommodationTable(a), bookings |-> bookings]
    /\ loc = NoLoc

NextAvailability ==
    \/ populate_availability_table_call
    \/ populate_availability_table_accommodation
    \/ populate_availability_table_return

SpecAvailability == InitAvailability /\ [][NextAvailability]_vars

AvailabilityReturned == pc = "done" /\ "availability" \in DOMAIN data

\* some confirmed booking of the accommodation holds the day in
\* [CheckInDate, CheckOutDate)
CoveredByConfirmed(bookings, accommodation_id, day) ==
    \E k \in 1..Len(bookings) :
        /\ bookings[k].BookingStatus = "confirmed"
        /\ bookings[k].AccommodationID = accommodation_id
        /\ bookings[k].CheckInDate <= day
        /\ day < bookings[k].CheckOutDate

\* C3: a row of the Availability table has IsAvailable = false if and only if
\* its date lies in [CheckInDate, CheckOutDate) of a confirmed booking of the
\* same accommodation.
C3_UnavailableIffConfirmedStay ==
    AvailabilityReturned =>
        \A i \in 1..Len(data["availability"]) :
            LET r == data["availability"][i]
            IN (r.IsAvailable = FALSE)
                  <=> CoveredByConfirmed(data["bookings"], r.AccommodationID, r.Date)

\* witness of C3: the table holds an unavailable day, and a confirmed
\* booking's check-out day is available while a cancelled or pending booking
\* of the same accommodation covers it
C3_Witness ==
    /\ AvailabilityReturned
    /\ \E i, j \in 1..Len(data["availability"]) :
         \E k, m \in 1..Len(data["bookings"]) :
            LET r == data["availability"][i]
                s == data["availability"][j]
                b == data["bookings"][k]
                c == data["bookings"][m]
            IN /\ r.IsAvailable = FALSE
               /\ s.IsAvailable = TRUE
               /\ b.BookingStatus = "confirmed"
               /\ b.AccommodationID = s.AccommodationID
               /\ b.CheckOutDate = s.Date
               /\ c.BookingStatus # "confirmed"
               /\ c.AccommodationID = s.AccommodationID
               /\ c.CheckInDate <= s.Date
               /\ s.Date < c.CheckOutDate

----------------------------------------------------------------------------
(* populate_commission_table(bookings) *)

MaxCommissionBookings == 3

\* values of TotalAmount explored, in cents: none, ten cents, 270.00, the two
\* tier limits 500.00 and 1000.00, and 1000.01
CommissionAmounts == {0, 10, 27000, 50000, 100000, 100001}

\* mutant: the tier limits belong to the upper tier
commission_percentage_inclusive(total_amount) ==
    IF total_amount >= 100000 THEN 5
    ELSE IF total_amount >= 50000 THEN 10
    ELSE 15

\* commission_percentage: 5 above 1000, 10 above 500, else 15
commission_percentage_of(total_amount) ==
    IF total_amount > 100000 THEN 5
    ELSE IF total_amount > 50000 THEN 10
    ELSE 15

\* amount = round(total_amount * (commission_percentage / 100), 2), in cents:
\* the cent nearest to total_amount * percentage / 100; exactly between two
\* cents the float that stands for the product decides, so either neighbour
\* is possible
commission_amount_of(total_amount) ==
    LET x == total_amount * commission_percentage_of(total_amount)
        q == x \div 100
        r == x % 100
    IN IF r < 50 THEN {q}
       ELSE IF r > 50 THEN {q + 1}
       ELSE {q, q + 1}

\* bookings.empty, or no confirmed booking: the empty Commissions table is
\* returned
populate_commission_table_call ==
    /\ pc = "populate_commission_table"
    /\ LET confirmed_bookings ==
              SelectSeq(data["bookings"], LAMBDA b : b.BookingStatus = "confirmed")
       IN IF data["bookings"] = <<>> \/ confirmed_bookings = <<>>
          THEN /\ data' = Put(data, "commissions", <<>>)
               /\ pc' = Follow("populate_commission_table")
               /\ loc' = [fn |-> "populate_commission_table"]
          ELSE /\ loc' = [fn |-> "populate_commission_table",
                          confirmed_bookings |-> confirmed_bookings,
                          commissions |-> <<>>,
                          i |-> 1]
               /\ pc' = "commission_loop"
               /\ data' = data
    /\ UNCHANGED args

\* if total_amount <= 0: continue
populate_commission_table_skip ==
    /\ pc = "commission_loop"
    /\ loc.i <= Len(loc.confirmed_bookings)
    /\ loc.confirmed_bookings[loc.i].TotalAmount <= 0
    /\ loc' = [loc EXCEPT !.i = @ + 1]
    /\ UNCHANGED <<pc, args, data>>

\* the commission of one confirmed booking is appended
populate_commission_table_row ==
    /\ pc = "commission_loop"
    /\ loc.i <= Len(loc.confirmed_bookings)
    /\ LET booking == loc.confirmed_bookings[loc.i]
       IN /\ booking.TotalAmount > 0
          /\ \E amount \in commission_amount_of(booking.TotalAmount) :
               loc' = [loc EXCEPT
                         !.commissions = Append(@, [BookingID |-> booking.BookingID,
                                                    Amount |-> amount]),
                         !.i = @ + 1]
    /\ UNCHANGED <<pc, args, data>>

\* pd.DataFrame([]) has no BookingID column: df_commissions["BookingID"]
\* raises KeyError and the empty table is returned; a commission of an
\* unknown booking raises ValueError, with the same result
populate_commission_table_return ==
    /\ pc = "commission_loop"
    /\ loc.i > Len(loc.confirmed_bookings)
    /\ LET missing_booking_ids ==
              Column(loc.commissions, "BookingID") \ Column(data["bookings"], "BookingID")
       IN data' = Put(data, "commissions",
                      IF loc.commissions = <<>> \/ missing_booking_ids # {}
                      THEN <<>> ELSE loc.commissions)
    /\ pc' = Follow("populate_commission_table")
    /\ UNCHANGED <<args, loc>>

\* the Bookings tables of n rows with any booking status and any of the
\* amounts explored
CommissionBookingTables(n) ==
    {[i \in 1..n |->
        [BookingRow(i, 1, <<start_date, start_date + 1>>, f[i][1], "paid")
            EXCEPT !.TotalAmount = f[i][2]]] :
        f \in [1..n -> {"confirmed", "cancelled", "pending"} \X CommissionAmounts]}

InitCommissions ==
    /\ pc = "populate_commission_table"
    /\ args = [calls |-> <<"populate_commission_table">>]
    /\ \E n \in 0..MaxCommissionBookings :
         \E bookings \in CommissionBookingTables(n) :
            data = [bookings |-> bookings]
    /\ loc = NoLoc

NextCommissions ==
    \/ populate_commission_table_call
    \/ populate_commission_table_skip
    \/ populate_commission_table_row
    \/ populate_commission_table_return

SpecCommissions == InitCommissions /\ [][NextCommissions]_vars

CommissionsReturned == pc = "done" /\ "commissions" \in DOMAIN data

\* the booking is confirmed and has a positive TotalAmount
CommissionDue(b) == b.BookingStatus = "confirmed" /\ b.TotalAmount > 0

\* the rows of the returned Commissions table: one for each confirmed booking
\* with TotalAmount > 0, in the bookings' order, and no other
CommissionRowsMatch ==
    LET due == SelectSeq(data["bookings"], CommissionDue)
    IN /\ Len(data["commissions"]) = Len(due)
       /\ \A k \in 1..Len(due) : data["commissions"][k].BookingID = due[k].BookingID

\* the booking a commission row was computed from
BookingOf(row) ==
    CHOOSE b \in Range(data["bookings"]) : b.BookingID = row.BookingID

\* the rate of the claim: 5% above 1000, 10% above 500 up to 1000, else 15%
ClaimedPercentage(total_amount) ==
    IF total_amount > 100000 THEN 5
    ELSE IF total_amount > 50000 /\ total_amount <= 100000 THEN 10
    ELSE 15

\* C11 as stated: one row for each confirmed booking with TotalAmount > 0 and
\* none for any other, the row's Amount being exactly TotalAmount x 5% above
\* 1000, x 10% in (500, 1000], x 15% in (0, 500].
C11_Original ==
    CommissionsReturned =>
        /\ CommissionRowsMatch
        /\ \A k \in 1..Len(data["commissions"]) :
             LET row == data["commissions"][k]
                 total_amount == BookingOf(row).TotalAmount
             IN 100 * row.Amount = total_amount * ClaimedPercentage(total_amount)

\* C11: one row for each confirmed booking with TotalAmount > 0 and none for
\* any other, the row's Amount being TotalAmount x 5% above 1000, x 10% in
\* (500, 1000], x 15% in (0, 500], rounded to the cent.
C11_CommissionTiers ==
    CommissionsReturned =>
        /\ CommissionRowsMatch
        /\ \A k \in 1..Len(data["commissions"]) :
             LET row == data["commissions"][k]
                 total_amount == BookingOf(row).TotalAmount
                 error == 100 * row.Amount
                             - total_amount * ClaimedPercentage(total_amount)
             IN error <= 50 /\ error >= -50

\* witness of C11: 1000.00 is charged 10%, 500.00 is charged 15%, and a
\* booking that is not confirmed has no row
C11_Witness ==
    /\ CommissionsReturned
    /\ Len(data["commissions"]) = 2
    /\ \E i, j, n \in 1..Len(data["bookings"]) :
         /\ data["bookings"][i].TotalAmount = 100000
         /\ data["bookings"][j].TotalAmount = 50000
         /\ data["bookings"][n].BookingStatus # "confirmed"
         /\ data["bookings"][n].TotalAmount > 0
         /\ \E k, m \in 1..2 :
              /\ data["commissions"][k]
                    = [BookingID |-> data["bookings"][i].BookingID, Amount |-> 10000]
              /\ data["commissions"][m]
                    = [BookingID |-> data["bookings"][j].BookingID, Amount |-> 7500]

----------------------------------------------------------------------------
(* generate_dynamic_price(property_type, square_footage, host_rating)      *)
(* A property type is a string, kept as the sequence of its characters;    *)
(* the square footage is a float counted in tenths of a square foot and    *)
(* the host rating a float counted in hundredths, so that a call has       *)
(* fractional arguments; prices are in cents.                              *)

apartment == <<"a", "p", "a", "r", "t", "m", "e", "n", "t">>
villa == <<"v", "i", "l", "l", "a">>
house == <<"h", "o", "u", "s", "e">>
studio == <<"s", "t", "u", "d", "i", "o">>
cabin == <<"c", "a", "b", "i", "n">>
boathouse == <<"b", "o", "a", "t", "h", "o", "u", "s", "e">>

\* the base_price dictionary, in dollars
base_price == (apartment :> 50) @@ (villa :> 100) @@ (house :> 80)
                 @@ (studio :> 40) @@ (cabin :> 60) @@ (boathouse :> 90)

\* str.lower() of one character: the 26 capital letters are lowered and
\* every other character of the property types is left as it is
lower_char(c) ==
    LET upper == <<"A", "B", "C", "D", "E", "F", "G", "H", "I", "J", "K", "L", "M",
                   "N", "O", "P", "Q", "R", "S", "T", "U", "V", "W", "X", "Y", "Z">>
        lower == <<"a", "b", "c", "d", "e", "f", "g", "h", "i", "j", "k", "l", "m",
                   "n", "o", "p", "q", "r", "s", "t", "u", "v", "w", "x", "y", "z">>
    IN IF \E i \in 1..Len(upper) : upper[i] = c
       THEN lower[CHOOSE i \in 1..Len(upper) : upper[i] = c]
       ELSE c

lower(s) == [i \in 1..Len(s) |-> lower_char(s[i])]

\* mutant: the dictionary is read with the property type as given
base_price_case_sensitive(property_type) ==
    IF property_type \in DOMAIN base_price THEN base_price[property_type] ELSE 50

\* base_price = {...}.get(property_type.lower(), 50)
base_price_of(property_type) ==
    IF lower(property_type) \in DOMAIN base_price
    THEN base_price[lower(property_type)]
    ELSE 50

\* round(base_price * price_modifier, 2) in cents, from the product in
\* ten-thousandths of a dollar: base_price * square_footage / 1000 is
\* base_price * tenths of a square foot, base_price * host_rating / 5 is
\* 20 * base_price * hundredths; exactly between two cents the float decides
\* (50 * (1000.1 / 1000 + 1) is rounded down, 90 * (2500.5 / 1000 + 4.99 / 5)
\* is rounded up)
final_price_of(property_type, square_footage, host_rating) ==
    LET x == base_price_of(property_type) * square_footage
                + 20 * base_price_of(property_type) * host_rating
        q == x \div 100
        r == x % 100
    IN IF r < 50 THEN {q}
       ELSE IF r > 50 THEN {q + 1}
       ELSE {q, q + 1}

\* the values generate_dynamic_price can return, in cents:
\* max(50, min(final_price, 1000))
generate_dynamic_price(property_type, square_footage, host_rating) ==
    {Max(5000, Min(final_price, 100000)) :
        final_price \in final_price_of(property_type, square_footage, host_rating)}

\* property_type = random.choice(property_types)
PropertyTypeDraws == {apartment, house, studio, villa, boathouse, cabin}

\* square_footage = random.randint(300, 3000)
SquareFootageDraws == 300..3000

\* host_rating = round(random.uniform(2.5, 5.0), 1), in tenths
HostRatingDraws == 25..50

\* the property types of the direct calls explored: the six drawn, the same
\* words in other cases, and a word the dictionary does not hold
PropertyTypeArguments ==
    PropertyTypeDraws \cup
    {<<"V", "i", "l", "l", "a">>, <<"V", "I", "L", "L", "A">>,
     <<"S", "t", "u", "d", "i", "o">>, <<"S", "T", "U", "D", "I", "O">>,
     <<"C", "A", "B", "I", "N">>, <<"H", "O", "U", "S", "E">>,
     <<"A", "P", "A", "R", "T", "M", "E", "N", "T">>, <<"h", "u", "t">>}

\* the square footages, in tenths, and the host ratings, in hundredths, of
\* the direct calls explored: below, among and above those
\* populate_accommodation_table draws, whole and fractional (1000.1, 1000.3,
\* 2500.5 square feet; ratings 3.75 and 4.99)
SquareFootageArguments == {0, 3000, 10001, 10003, 10010, 20000, 25005, 30000, 120000}
HostRatingArguments == {0, 250, 375, 499, 500}

\* the arguments explored: every triple populate_accommodation_table can
\* draw, and the direct calls
DynamicPriceArguments ==
    {<<a[1], 10 * a[2], 10 * a[3]>> :
        a \in PropertyTypeDraws \X SquareFootageDraws \X HostRatingDraws}
       \cup (PropertyTypeArguments \X SquareFootageArguments \X HostRatingArguments)

\* one call of generate_dynamic_price: the function reads its arguments and
\* the dictionary, nothing else
generate_dynamic_price_call ==
    /\ pc = "generate_dynamic_price"
    /\ \E amount \in generate_dynamic_price(args.property_type,
                                            args.square_footage, args.host_rating) :
         loc' = [fn |-> "generate_dynamic_price", amount |-> amount]
    /\ pc' = Follow("generate_dynamic_price")
    /\ UNCHANGED <<args, data>>

InitDynamicPrice ==
    /\ pc = "generate_dynamic_price"
    /\ \E a \in DynamicPriceArguments :
         args = [calls |-> <<"generate_dynamic_price">>,
                 property_type |-> a[1], square_footage |-> a[2],
                 host_rating |-> a[3]]
    /\ data = NoData
    /\ loc = NoLoc

NextDynamicPrice == generate_dynamic_price_call

SpecDynamicPrice == InitDynamicPrice /\ [][NextDynamicPrice]_vars

DynamicPriceReturned == pc = "done" /\ loc.fn = "generate_dynamic_price"

\* the base price the claim gives a property type: that of the fixed table
\* whatever the case of the letters, 50 for a type the table does not hold
ClaimedBasePrice(property_type) ==
    LET known == {t \in DOMAIN base_price : lower(property_type) = t}
    IN IF known = {} THEN 50 ELSE base_price[CHOOSE t \in known : TRUE]

\* the product the claim names, basePrice(type) x (squareFootage/1000 +
\* hostRating/5), in ten-thousandths of a dollar
ClaimedProduct ==
    LET claimed_base_price == ClaimedBasePrice(args.property_type)
    IN claimed_base_price * args.square_footage
          + 20 * claimed_base_price * args.host_rating

\* the cent amounts within half a cent of a product: one amount, or the two
\* neighbours when the product is exactly between two cents
ClaimedRounded(product) ==
    {c \in (product \div 100)..(product \div 100 + 1) :
        /\ 100 * c - product <= 50
        /\ product - 100 * c <= 50}

\* C12 as the spec states it: the value returned lies in [50, 1000] and is
\* clamp(basePrice(type) x (squareFootage/1000 + hostRating/5), 50, 1000)
\* itself, the base price being read case-insensitively and 50 for an
\* unknown type.
C12_Original ==
    DynamicPriceReturned =>
        /\ loc.amount >= 5000
        /\ loc.amount <= 100000
        /\ 100 * loc.amount = Max(500000, Min(ClaimedProduct, 10000000))

\* C12: the value generate_dynamic_price returns is determined by its three
\* arguments: it lies in [50, 1000] and is clamp(round(basePrice(type) x
\* (squareFootage/1000 + hostRating/5), 2), 50, 1000), the product rounded to
\* the nearest cent before it is clamped (either neighbour when it is exactly
\* between two cents), the base price being read case-insensitively and 50
\* for an unknown type; a product of whole cents is returned clamped exactly.
C12_DynamicPrice ==
    DynamicPriceReturned =>
        LET product == ClaimedProduct
        IN /\ loc.amount >= 5000
           /\ loc.amount <= 100000
           /\ \E rounded \in ClaimedRounded(product) :
                 loc.amount = Max(5000, Min(rounded, 100000))
           /\ product % 100 = 0
                 => 100 * loc.amount = Max(500000, Min(product, 10000000))

\* witness of C12: ('boathouse', 1000.1, 5.0) gives 180.01, the product
\* 180.009 rounded to two decimals
C12_Witness ==
    /\ DynamicPriceReturned
    /\ args.property_type = boathouse
    /\ args.square_footage = 10001
    /\ args.host_rating = 500
    /\ loc.amount = 18001

----------------------------------------------------------------------------
(* main()                                                                  *)
(* main calls every generator once, with its default arguments, and keeps  *)
(* the results in `data`.  In a run of main a table is kept as its shape:  *)
(* whether it has no row (DataFrame.empty) and the set of its columns.     *)
(* With the default arguments a Users table that has rows holds 20 admins, *)
(* 100 hosts and 280 guests, and a table that has rows has every column of *)
(* its rows.                                                               *)

\* the calls that may fail for a reason outside the program (to_csv cannot
\* write its file), in one run
MaxFailures == 2

\* the columns of each table: the keys of the rows its generator appends,
\* which are also the columns of the placeholder its handlers return
TableColumns ==
    [countries |-> {"CountryID", "CountryName"},
     house_rules |-> {"HouseRuleID", "RuleDescription"},
     amenities |-> {"AmenityID", "AmenityName"},
     cities |-> {"CityID", "CountryID", "CityName"},
     users |-> {"UserID", "Name", "Email", "Password", "Phone", "UserType",
                "DateOfBirth", "Gender", "Address", "RegistrationDate",
                "LastLogin", "UserStatus"},
     accommodations |-> {"AccommodationID", "HostID", "Title", "Description",
                         "Address", "CityID", "CountryID", "PricePerNight",
                         "AvailabilityStatus", "PropertyType", "NumberOfBedrooms",
                         "NumberOfBathrooms", "SquareFootage", "Neighborhood",
                         "HostRating", "AccommodationRating", "RegistrationDate",
                         "LastUpdated"},
     photos |-> {"PhotoID", "AccommodationID", "PhotoURL"},
     accommodation_house_rules |-> {"AccommodationID", "HouseRuleID"},
     accommodation_amenities |-> {"AccommodationAmenityID", "AccommodationID",
                                  "AmenityID"},
     bookings |-> {"BookingID", "GuestID", "AccommodationID", "CheckInDate",
                   "CheckOutDate", "TotalAmount", "BookingStatus",
                   "DiscountApplied", "PaymentStatus", "CreatedAt", "UpdatedAt"},
     payments |-> {"PaymentID", "BookingID", "PaymentDate", "Amount"},
     cancellations |-> {"BookingID", "CancellationDate", "CancellationReason"},
     availability |-> {"AccommodationID", "Date", "IsAvailable"},
     prices |-> {"PriceID", "AccommodationID", "Amount"},
     social_networks |-> {"UserID", "NetworkName", "NetworkProfileURL"},
     profiles |-> {"ProfileID", "UserID", "Bio", "ProfilePicture",
                   "SocialNetworkLink"},
     messages |-> {"MessageID", "SenderID", "ReceiverID", "MessageContent",
                   "MessageDate"},
     reviews |-> {"ReviewID", "AccommodationID", "UserID", "ReviewText",
                  "Rating", "ReviewDate"},
     host_responses |-> {"ReviewID", "ResponseText"},
     commissions |-> {"BookingID", "Amount"},
     admins |-> {"AdminID", "UserID", "Role"},
     admin_actions |-> {"ActionID", "AdminID", "ActionDescription", "ActionDate"},
     transactions |-> {"TransactionID", "PaymentID", "TransactionDate",
                       "TransactionType", "Amount", "PaymentMethod"},
     notifications |-> {"UserID", "NotificationMessage", "NotificationDate"}]

\* pd.DataFrame(columns=[...]) : no row, the columns of the table
Placeholder(key) == [empty |-> TRUE, columns |-> TableColumns[key]]

\* pd.DataFrame(rows) of at least one row
Frame(key) == [empty |-> FALSE, columns |-> TableColumns[key]]

\* pd.DataFrame([]) and pd.DataFrame(): no row and no column
NoColumns == [empty |-> TRUE, columns |-> {}]

\* the calls of main, in the order of its statements
MainCalls ==
    <<[key |-> "countries", fn |-> "populate_country_table", parents |-> <<>>],
      [key |-> "house_rules", fn |-> "populate_house_rule_table", parents |-> <<>>],
      [key |-> "amenities", fn |-> "populate_amenity_table", parents |-> <<>>],
      [key |-> "cities", fn |-> "populate_city_table", parents |-> <<"countries">>],
      [key |-> "users", fn |-> "populate_user_table", parents |-> <<>>],
      [key |-> "accommodations", fn |-> "populate_accommodation_table",
       parents |-> <<"users", "cities", "countries">>],
      [key |-> "photos", fn |-> "populate_photo_table",
       parents |-> <<"accommodations">>],
      [key |-> "accommodation_house_rules",
       fn |-> "populate_accommodation_house_rule_table",
       parents |-> <<"accommodations", "house_rules">>],
      [key |-> "accommodation_amenities",
       fn |-> "populate_accommodation_amenity_table",
       parents |-> <<"accommodations", "amenities">>],
      [key |-> "bookings", fn |-> "populate_booking_table",
       parents |-> <<"users", "accommodations">>],
      [key |-> "payments", fn |-> "populate_payment_table",
       parents |-> <<"bookings">>],
      [key |-> "cancellations", fn |-> "populate_cancellation_table",
       parents |-> <<"bookings">>],
      [key |-> "availability", fn |-> "populate_availability_table",
       parents |-> <<"accommodations", "bookings">>],
      [key |-> "prices", fn |-> "populate_price_table",
       parents |-> <<"accommodations">>],
      [key |-> "social_networks", fn |-> "populate_social_network_table",
       parents |-> <<"users">>],
      [key |-> "profiles", fn |-> "populate_profile_table",
       parents |-> <<"users">>],
      [key |-> "messages", fn |-> "populate_message_table",
       parents |-> <<"users">>],
      [key |-> "reviews", fn |-> "populate_review_table",
       parents |-> <<"accommodations", "bookings", "users">>],
      [key |-> "host_responses", fn |-> "populate_host_response_table",
       parents |-> <<"reviews">>],
      [key |-> "commissions", fn |-> "populate_commission_table",
       parents |-> <<"bookings">>],
      [key |-> "admins", fn |-> "populate_admin_table", parents |-> <<"users">>],
      [key |-> "admin_actions", fn |-> "populate_admin_action_table",
       parents |-> <<"admins">>],
      [key |-> "transactions", fn |-> "populate_transaction_table",
       parents |-> <<"payments">>],
      [key |-> "notifications", fn |-> "populate_notification_table",
       parents |-> <<"users">>]>>

\* the table has rows and the column
HasRowsWith(t, column) == ~t.empty /\ column \in t.columns

\* what each generator can return when nothing outside the program fails

populate_country_table_result == {Frame("countries")}

populate_house_rule_table_result == {Frame("house_rules")}

populate_amenity_table_result == {Frame("amenities")}

\* df_countries.empty raises ValueError
populate_city_table_result(countries) ==
    IF HasRowsWith(countries, "CountryID")
    THEN {Frame("cities")} ELSE {Placeholder("cities")}

populate_user_table_result == {Frame("users")}

\* no host, no city or no country raises ValueError
populate_accommodation_table_result(users, cities, countries) ==
    IF /\ HasRowsWith(users, "UserType") /\ HasRowsWith(users, "UserID")
       /\ HasRowsWith(cities, "CityID") /\ HasRowsWith(countries, "CountryID")
    THEN {Frame("accommodations")} ELSE {Placeholder("accommodations")}

populate_photo_table_result(accommodations) ==
    IF HasRowsWith(accommodations, "AccommodationID")
    THEN {Frame("photos")} ELSE {Placeholder("photos")}

populate_accommodation_house_rule_table_result(accommodations, house_rules) ==
    IF /\ HasRowsWith(accommodations, "AccommodationID")
       /\ HasRowsWith(house_rules, "HouseRuleID")
    THEN {Frame("accommodation_house_rules")}
    ELSE {Placeholder("accommodation_house_rules")}

populate_accommodation_amenity_table_result(accommodations, amenities) ==
    IF /\ HasRowsWith(accommodations, "AccommodationID")
       /\ HasRowsWith(amenities, "AmenityID")
    THEN {Frame("accommodation_amenities")}
    ELSE {Placeholder("accommodation_amenities")}

\* no guest raises ValueError; with guests, every iteration may append
\* nothing (random.random() <= 0.3, or a draw of zero nights) and then
\* pd.DataFrame([]) is returned; df_accommodations.sample(1) of an empty
\* table raises ValueError in the first iteration that reaches it
populate_booking_table_result(users, accommodations) ==
    IF ~HasRowsWith(users, "UserType") THEN {Placeholder("bookings")}
    ELSE IF ~HasRowsWith(accommodations, "AccommodationID")
         THEN {Placeholder("bookings"), NoColumns}
         ELSE {Frame("bookings"), NoColumns}

\* an empty table, or no paid booking, raises ValueError
populate_payment_table_result(bookings) ==
    IF /\ HasRowsWith(bookings, "BookingID") /\ HasRowsWith(bookings, "PaymentStatus")
    THEN {Frame("payments"), Placeholder("payments")}
    ELSE {Placeholder("payments")}

\* df_bookings["BookingStatus"] of a table without columns raises KeyError;
\* an empty table with its columns is not rejected: no row is built and
\* pd.DataFrame([]) is returned
populate_cancellation_table_result(bookings) ==
    IF "BookingStatus" \notin bookings.columns THEN {Placeholder("cancellations")}
    ELSE IF bookings.empty THEN {NoColumns}
    ELSE {Frame("cancellations")}

\* mutant: the calendar is built for the accommodations whatever the bookings
populate_availability_table_any_bookings(accommodations, bookings) ==
    IF HasRowsWith(accommodations, "AccommodationID")
    THEN {Frame("availability")} ELSE {Placeholder("availability")}

\* an empty Accommodations or Bookings table raises ValueError
populate_availability_table_result(accommodations, bookings) ==
    IF /\ HasRowsWith(accommodations, "AccommodationID")
       /\ HasRowsWith(bookings, "BookingStatus")
    THEN {Frame("availability")} ELSE {Placeholder("availability")}

populate_price_table_result(accommodations) ==
    IF HasRowsWith(accommodations, "AccommodationID")
    THEN {Frame("prices")} ELSE {Placeholder("prices")}

\* every user may be passed over (random.random() > 0.3): pd.DataFrame([])
populate_social_network_table_result(users) ==
    IF HasRowsWith(users, "UserID")
    THEN {Frame("social_networks"), NoColumns}
    ELSE {Placeholder("social_networks")}

populate_profile_table_result(users) ==
    IF HasRowsWith(users, "UserType")
    THEN {Frame("profiles")} ELSE {Placeholder("profiles")}

populate_message_table_result(users) ==
    IF HasRowsWith(users, "UserID")
    THEN {Frame("messages")} ELSE {Placeholder("messages")}

\* an empty parent, or no confirmed booking, raises ValueError
populate_review_table_result(accommodations, bookings, users) ==
    IF /\ HasRowsWith(accommodations, "AccommodationID")
       /\ HasRowsWith(bookings, "BookingStatus")
       /\ HasRowsWith(users, "UserID")
    THEN {Frame("reviews"), Placeholder("reviews")}
    ELSE {Placeholder("reviews")}

\* a Reviews table with rows has at least min_reviews = min_responses rows
populate_host_response_table_result(reviews) ==
    IF HasRowsWith(reviews, "ReviewID")
    THEN {Frame("host_responses")} ELSE {Placeholder("host_responses")}

\* no booking, no confirmed booking or no commission: the placeholder
populate_commission_table_result(bookings) ==
    IF HasRowsWith(bookings, "BookingStatus")
    THEN {Frame("commissions"), Placeholder("commissions")}
    ELSE {Placeholder("commissions")}

\* mutant: without users the handler returns a table without columns
populate_admin_table_no_columns(users) ==
    IF HasRowsWith(users, "UserType") THEN {Frame("admins")} ELSE {NoColumns}

populate_admin_table_result(users) ==
    IF HasRowsWith(users, "UserType")
    THEN {Frame("admins")} ELSE {Placeholder("admins")}

populate_admin_action_table_result(admins) ==
    IF HasRowsWith(admins, "AdminID")
    THEN {Frame("admin_actions")} ELSE {Placeholder("admin_actions")}

populate_transaction_table_result(payments) ==
    IF HasRowsWith(payments, "PaymentID")
    THEN {Frame("transactions")} ELSE {Placeholder("transactions")}

populate_notification_table_result(users) ==
    IF HasRowsWith(users, "UserID")
    THEN {Frame("notifications")} ELSE {Placeholder("notifications")}

\* the tables the call `fn` of main can return from the table map d
Result(fn, d) ==
    CASE fn = "populate_country_table" -> populate_country_table_result
      [] fn = "populate_house_rule_table" -> populate_house_rule_table_result
      [] fn = "populate_amenity_table" -> populate_amenity_table_result
      [] fn = "populate_city_table" -> populate_city_table_result(d["countries"])
      [] fn = "populate_user_table" -> populate_user_table_result
      [] fn = "populate_accommodation_table" ->
            populate_accommodation_table_result(d["users"], d["cities"], d["countries"])
      [] fn = "populate_photo_table" ->
            populate_photo_table_result(d["accommodations"])
      [] fn = "populate_accommodation_house_rule_table" ->
            populate_accommodation_house_rule_table_result(d["accommodations"],
                                                           d["house_rules"])
      [] fn = "populate_accommodation_amenity_table" ->
            populate_accommodation_amenity_table_result(d["accommodations"],
                                                        d["amenities"])
      [] fn = "populate_booking_table" ->
            populate_booking_table_result(d["users"], d["accommodations"])
      [] fn = "populate_payment_table" -> populate_payment_table_result(d["bookings"])
      [] fn = "populate_cancellation_table" ->
            populate_cancellation_table_result(d["bookings"])
      [] fn = "populate_availability_table" ->
            populate_availability_table_result(d["accommodations"], d["bookings"])
      [] fn = "populate_price_table" ->
            populate_price_table_result(d["accommodations"])
      [] fn = "populate_social_network_table" ->
            populate_social_network_table_result(d["users"])
      [] fn = "populate_profile_table" -> populate_profile_table_result(d["users"])
      [] fn = "populate_message_table" -> populate_message_table_result(d["users"])
      [] fn = "populate_review_table" ->
            populate_review_table_result(d["accommodations"], d["bookings"], d["users"])
      [] fn = "populate_host_response_table" ->
            populate_host_response_table_result(d["reviews"])
      [] fn = "populate_commission_table" ->
            populate_commission_table_result(d["bookings"])
      [] fn = "populate_admin_table" -> populate_admin_table_result(d["users"])
      [] fn = "populate_admin_action_table" ->
            populate_admin_action_table_result(d["admins"])
      [] fn = "populate_transaction_table" ->
            populate_transaction_table_result(d["payments"])
      [] fn = "populate_notification_table" ->
            populate_notification_table_result(d["users"])

\* mutant: the call is made again, main does not move to its next statement
MainCallRetried(call) ==
    /\ \A i \in 1..Len(call.parents) : call.parents[i] \in DOMAIN data
    /\ \E table \in Result(call.fn, data) :
         /\ data' = Put(data, call.key, table)
         /\ loc' = [loc EXCEPT
                      !.invoked = Append(@, [fn |-> call.fn, known |-> DOMAIN data]),
                      !.written = IF table = Placeholder(call.key)
                                  THEN @ ELSE Append(@, call.key)]
    /\ pc' = pc

\* data[key] = fn(parents...): the call is added to the calls made, with the
\* tables the map held when it was made; the call returns one of its results,
\* or its placeholder when it failed for an outside reason (every handler
\* catches Exception); reading a table the map does not hold raises KeyError
\* in main. A generator calls to_csv on the table it built
\* right before it returns it; a handler, and the early returns of
\* populate_commission_table, return the placeholder without writing it.
MainCall(call) ==
    IF \A i \in 1..Len(call.parents) : call.parents[i] \in DOMAIN data
    THEN /\ \E failed \in BOOLEAN :
              /\ failed => loc.failures < MaxFailures
              /\ \E table \in IF failed THEN {Placeholder(call.key)}
                                        ELSE Result(call.fn, data) :
                   /\ data' = Put(data, call.key, table)
                   /\ loc' = [loc EXCEPT
                                !.step = @ + 1,
                                !.invoked = Append(@, [fn |-> call.fn,
                                                       known |-> DOMAIN data]),
                                !.written = IF table = Placeholder(call.key)
                                            THEN @ ELSE Append(@, call.key),
                                !.failures = IF failed THEN @ + 1 ELSE @]
         /\ pc' = pc
    ELSE /\ pc' = "raised"
         /\ UNCHANGED <<data, loc>>

\* one of the statements data[key] = populate_...(...)
main_generate ==
    /\ pc = "main"
    /\ loc.step <= Len(MainCalls)
    /\ MainCalls[loc.step].key # "host_responses"
    /\ MainCall(MainCalls[loc.step])
    /\ UNCHANGED args

\* if not data["reviews"].empty: the host responses are generated
main_host_responses_call ==
    /\ pc = "main"
    /\ loc.step <= Len(MainCalls)
    /\ MainCalls[loc.step].key = "host_responses"
    /\ "reviews" \in DOMAIN data
    /\ ~data["reviews"].empty
    /\ MainCall(MainCalls[loc.step])
    /\ UNCHANGED args

\* else: data["host_responses"] = pd.DataFrame()
main_host_responses_skip ==
    /\ pc = "main"
    /\ loc.step <= Len(MainCalls)
    /\ MainCalls[loc.step].key = "host_responses"
    /\ IF "reviews" \in DOMAIN data
       THEN /\ data["reviews"].empty
            /\ data' = Put(data, "host_responses", NoColumns)
            /\ loc' = [loc EXCEPT !.step = @ + 1]
            /\ pc' = pc
       ELSE /\ pc' = "raised"
            /\ UNCHANGED <<data, loc>>
    /\ UNCHANGED args

\* verify_data_integrity(users, accommodations, bookings): it reads
\* UserType, UserID, HostID, GuestID and AccommodationID; a missing column
\* raises KeyError, which the function catches and reports
main_verify_data_integrity ==
    /\ pc = "main"
    /\ loc.step > Len(MainCalls)
    /\ IF {"users", "accommodations", "bookings"} \subseteq DOMAIN data
       THEN /\ loc' = [loc EXCEPT
                         !.verified =
                            IF /\ {"UserType", "UserID"} \subseteq data["users"].columns
                               /\ {"HostID", "AccommodationID"}
                                     \subseteq data["accommodations"].columns
                               /\ {"GuestID", "AccommodationID"}
                                     \subseteq data["bookings"].columns
                            THEN "complete" ELSE "error"]
            /\ pc' = "main_validate"
       ELSE /\ pc' = "raised"
            /\ loc' = loc
    /\ UNCHANGED <<args, data>>

\* validate_tables(users, admins, accommodations) is not guarded: a missing
\* column raises KeyError out of main; a table with rows has at least 20
\* rows and the references hold, so the result is the success string when
\* the three tables have rows and a list of issues otherwise
main_validate_tables ==
    /\ pc = "main_validate"
    /\ IF /\ {"users", "admins", "accommodations"} \subseteq DOMAIN data
          /\ {"UserID", "UserType"} \subseteq data["users"].columns
          /\ "UserID" \in data["admins"].columns
          /\ "HostID" \in data["accommodations"].columns
       THEN /\ loc' = [loc EXCEPT
                         !.validation_result =
                            IF \/ data["users"].empty
                               \/ data["admins"].empty
                               \/ data["accommodations"].empty
                            THEN "issues" ELSE "success"]
            /\ pc' = "done"
       ELSE /\ pc' = "raised"
            /\ loc' = loc
    /\ UNCHANGED <<args, data>>

InitMain ==
    /\ pc = "main"
    /\ args = [calls |-> <<"main">>]
    /\ data = NoData
    /\ loc = [fn |-> "main", step |-> 1, invoked |-> <<>>, written |-> <<>>,
              failures |-> 0, verified |-> "no", validation_result |-> "none"]

NextMain ==
    \/ main_generate
    \/ main_host_responses_call
    \/ main_host_responses_skip
    \/ main_verify_data_integrity
    \/ main_validate_tables

SpecMain == InitMain /\ [][NextMain]_vars

\* main is not suspended for ever: each of its statements is run
SpecMainLive == SpecMain /\ WF_vars(NextMain)

\* the keys of the table map
TableKeys == {MainCalls[i].key : i \in 1..Len(MainCalls)}

\* main returned: verify_data_integrity and validate_tables were run and the
\* table map holds the 24 tables
MainCompleted ==
    /\ pc = "done"
    /\ loc.fn = "main"
    /\ loc.verified # "no"
    /\ loc.validation_result # "none"
    /\ DOMAIN data = DOMAIN TableColumns
    /\ Cardinality(DOMAIN data) = 24

\* C13: every run of main raises no exception, runs verify_data_integrity
\* and validate_tables, and ends with a table map of the 24 tables.
C13_MainCompletes == [](pc # "raised") /\ <>MainCompleted

\* witness of C13: main completed although a call failed, bookings has no
\* column and the host responses were skipped
C13_Witness ==
    /\ MainCompleted
    /\ loc.failures > 0
    /\ data["bookings"] = NoColumns
    /\ loc.verified = "error"
    /\ Len(loc.invoked) = Len(MainCalls) - 1

\* the tables the call that fills `key` takes as arguments
ParentsOf(key) ==
    LET call == CHOOSE c \in Range(MainCalls) : c.key = key
    IN Range(call.parents)

\* C14: whenever a required parent of a table is empty or lacks a required id
\* column, or main skips its generator for that reason, the table stored in
\* the table map is empty and has exactly the table's column set; this holds
\* for every table, Cancellations, Bookings and HostResponses included.
C14_PlaceholdersHaveSchema ==
    \A key \in DOMAIN data :
        (\E parent \in ParentsOf(key) : data[parent].empty)
            => data[key] = Placeholder(key)

\* the parents the claim gives each generator
ClaimedParents ==
    [populate_country_table |-> {},
     populate_house_rule_table |-> {},
     populate_amenity_table |-> {},
     populate_city_table |-> {"countries"},
     populate_user_table |-> {},
     populate_accommodation_table |-> {"users", "cities", "countries"},
     populate_photo_table |-> {"accommodations"},
     populate_accommodation_house_rule_table |-> {"accommodations", "house_rules"},
     populate_accommodation_amenity_table |-> {"accommodations", "amenities"},
     populate_booking_table |-> {"users", "accommodations"},
     populate_payment_table |-> {"bookings"},
     populate_cancellation_table |-> {"bookings"},
     populate_availability_table |-> {"accommodations", "bookings"},
     populate_price_table |-> {"accommodations"},
     populate_social_network_table |-> {"users"},
     populate_profile_table |-> {"users"},
     populate_message_table |-> {"users"},
     populate_review_table |-> {"accommodations", "bookings", "users"},
     populate_host_response_table |-> {"reviews"},
     populate_commission_table |-> {"bookings"},
     populate_admin_table |-> {"users"},
     populate_admin_action_table |-> {"admins"},
     populate_transaction_table |-> {"payments"},
     populate_notification_table |-> {"users"}]

\* C15: in a run of main no generator is invoked twice, a generator is
\* invoked only when every table it takes as a parent is in the table map,
\* and the verification and the validation run after all the generators.
C15_OnceAndInOrder ==
    /\ \A i, j \in 1..Len(loc.invoked) :
          i # j => loc.invoked[i].fn # loc.invoked[j].fn
    /\ \A i \in 1..Len(loc.invoked) :
          ClaimedParents[loc.invoked[i].fn] \subseteq loc.invoked[i].known
    /\ (pc = "main_validate" \/ loc.verified # "no" \/ loc.validation_result # "none")
          => /\ DOMAIN data = DOMAIN TableColumns
             /\ \A i \in 1..Len(MainCalls) :
                   \/ \E j \in 1..Len(loc.invoked) : loc.invoked[j].fn = MainCalls[i].fn
                   \/ /\ MainCalls[i].key = "host_responses"
                      /\ data["reviews"].empty

\* witness of C15: main completed, the 24 generators were invoked and one of
\* them, which failed, was not invoked again
C15_Witness ==
    /\ MainCompleted
    /\ Len(loc.invoked) = 24
    /\ loc.failures = 1
    /\ data["payments"] = Placeholder("payments")
    /\ data["transactions"] = Placeholder("transactions")

----------------------------------------------------------------------------
(* validate_tables(users, admins, accommodations) *)

\* the tables explored have 0 rows or between 19 and 20 + MaxRowsOverFloor
\* rows
MaxRowsOverFloor == 1

\* the floor of the three row counts: len(...) < 20
min_entries == 20

success_message == "All tables and dependencies validated successfully."

\* a Python set of small non-negative integers is its hash table:
\* table[i + 1] is slot i, which holds a key, Unused or Dummy (a discarded
\* key); the hash of such an integer is the integer. A table starts with
\* PySet_MINSIZE slots.
Unused == -1
Dummy == -2
PySet_MINSIZE == 8
LINEAR_PROBES == 9
PERTURB_SHIFT == 5

set_new(size) == [i \in 1..size |-> Unused]

\* the keys of a set in the order an iteration visits them: slot by slot
RECURSIVE set_keys_between(_, _, _)
set_keys_between(table, first, last) ==
    IF first = last THEN (IF table[first] >= 0 THEN <<table[first]>> ELSE <<>>)
    ELSE set_keys_between(table, first, (first + last) \div 2)
            \o set_keys_between(table, (first + last) \div 2 + 1, last)

set_keys(table) == set_keys_between(table, 1, Len(table))

\* the slot of a key: the slot that holds it or the first unused slot of its
\* probe sequence, which starts at slot hash & mask, looks at the
\* LINEAR_PROBES next slots when they exist and then jumps to
\* (i * 5 + 1 + perturb) & mask with perturb >>= PERTURB_SHIFT
RECURSIVE set_lookkey(_, _, _, _, _)
set_lookkey(table, key, i, perturb, j) ==
    LET mask == Len(table) - 1
        probes == IF i + LINEAR_PROBES <= mask THEN LINEAR_PROBES ELSE 0
        shifted == perturb \div (2 ^ PERTURB_SHIFT)
    IN IF table[i + j + 1] \in {Unused, key} THEN i + j
       ELSE IF j < probes THEN set_lookkey(table, key, i, perturb, j + 1)
       ELSE set_lookkey(table, key, (i * 5 + 1 + shifted) % (mask + 1), shifted, 0)

set_slot(table, key) == set_lookkey(table, key, key % Len(table), key, 0) + 1

set_contains(table, key) == table[set_slot(table, key)] = key

\* the keys are inserted, in their order, into a table that holds none of
\* them and has room for all
RECURSIVE set_insert_clean(_, _)
set_insert_clean(table, keys) ==
    IF keys = <<>> THEN table
    ELSE set_insert_clean([table EXCEPT ![set_slot(table, Head(keys))] = Head(keys)],
                          Tail(keys))

\* the smallest size, a power of two from PySet_MINSIZE, above minused
RECURSIVE set_table_size(_, _)
set_table_size(size, minused) ==
    IF size <= minused THEN set_table_size(2 * size, minused) ELSE size

\* the keys move to a new table, in the order of their slots
set_table_resize(table, minused) ==
    set_insert_clean(set_new(set_table_size(PySet_MINSIZE, minused)), set_keys(table))

\* a key is added to a table without discarded keys; the table is resized
\* to more than four times its keys once fill * 5 >= mask * 3
set_add_entry(table, key) ==
    IF set_contains(table, key) THEN table
    ELSE LET added == [table EXCEPT ![set_slot(table, key)] = key]
             used == Len(set_keys(added))
         IN IF used * 5 < (Len(table) - 1) * 3 THEN added
            ELSE set_table_resize(added, IF used > 50000 THEN used * 2 ELSE used * 4)

\* set(iterable): the values are added one by one to an empty set
RECURSIVE set_update(_, _)
set_update(table, iterable) ==
    IF iterable = <<>> THEN table
    ELSE set_update(set_add_entry(table, Head(iterable)), Tail(iterable))

set_of(iterable) == set_update(set_new(PySet_MINSIZE), iterable)

\* a copy of a set without discarded keys: the same table when the copy has
\* its size, otherwise the keys are inserted in the order of their slots
set_copy(so) ==
    LET used == Len(set_keys(so))
        size == IF used * 5 >= (PySet_MINSIZE - 1) * 3
                THEN set_table_size(PySet_MINSIZE, used * 2)
                ELSE PySet_MINSIZE
    IN IF used = 0 THEN set_new(PySet_MINSIZE)
       ELSE IF size = Len(so) THEN so
       ELSE set_insert_clean(set_new(size), set_keys(so))

\* the keys, in their order, that a set does not hold
RECURSIVE set_missing(_, _)
set_missing(keys, other) ==
    IF keys = <<>> THEN <<>>
    ELSE (IF set_contains(other, Head(keys)) THEN <<>> ELSE <<Head(keys)>>)
            \o set_missing(Tail(keys), other)

\* so - other: when so has more than four times the keys of other, a copy
\* of so from which the keys of other are discarded; otherwise a new set to
\* which the keys of so that other does not hold are added, in the order of
\* their slots in so
set_difference(so, other) ==
    IF Len(set_keys(so)) \div 4 > Len(set_keys(other))
    THEN LET copy == set_copy(so)
         IN [i \in 1..Len(copy) |->
               IF copy[i] >= 0 /\ set_contains(other, copy[i]) THEN Dummy ELSE copy[i]]
    ELSE set_update(set_new(PySet_MINSIZE), set_missing(set_keys(so), other))

\* the keys of a set as an f-string writes them: 24, 23
RECURSIVE set_repr_keys(_)
set_repr_keys(keys) ==
    IF Len(keys) = 1 THEN ToString(keys[1])
    ELSE ToString(Head(keys)) \o ", " \o set_repr_keys(Tail(keys))

set_repr(table) ==
    IF set_keys(table) = <<>> THEN "set()"
    ELSE "{" \o set_repr_keys(set_keys(table)) \o "}"

\* the issues; the two reference messages end with the set of the ids, as
\* an f-string writes a set: its keys in the order of their slots
users_issue == "User table has fewer than 20 entries."
admins_issue == "Admin table has fewer than 20 entries."
admin_users_issue(invalid_admin_users) ==
    "Admin table has UserIDs that do not exist in Users table: "
        \o set_repr(invalid_admin_users) \o "."
accommodations_issue == "Accommodation table has fewer than 20 entries."
accommodation_hosts_issue(invalid_accommodation_hosts) ==
    "Accommodation table has HostIDs that are not valid Hosts in Users table: "
        \o set_repr(invalid_accommodation_hosts) \o "."

\* the values of a column, in the order of the rows
Series(rows, column) == [i \in 1..Len(rows) |-> rows[i][column]]

\* set(admins["UserID"]) - set(users["UserID"])
invalid_admin_users_of(users, admins) ==
    set_difference(set_of(Series(admins, "UserID")), set_of(Series(users, "UserID")))

\* mutant: a HostID is accepted when it is the id of any user
invalid_accommodation_hosts_any_user(users, accommodations) ==
    set_difference(set_of(Series(accommodations, "HostID")),
                   set_of(Series(users, "UserID")))

\* set(accommodations["HostID"])
\*    - set(users[users["UserType"] == "host"]["UserID"])
invalid_accommodation_hosts_of(users, accommodations) ==
    set_difference(
        set_of(Series(accommodations, "HostID")),
        set_of(Series(SelectSeq(users, LAMBDA u : u.UserType = "host"), "UserID")))

\* the value validate_tables returns, with its type: the success string, or
\* the list of issues in the order of the checks
validate_tables(users, admins, accommodations) ==
    LET issues ==
            (IF Len(users) < min_entries THEN <<users_issue>> ELSE <<>>)
         \o (IF Len(admins) < min_entries THEN <<admins_issue>> ELSE <<>>)
         \o (IF set_keys(invalid_admin_users_of(users, admins)) # <<>>
             THEN <<admin_users_issue(invalid_admin_users_of(users, admins))>>
             ELSE <<>>)
         \o (IF Len(accommodations) < min_entries
             THEN <<accommodations_issue>> ELSE <<>>)
         \o (IF set_keys(invalid_accommodation_hosts_of(users, accommodations)) # <<>>
             THEN <<accommodation_hosts_issue(
                       invalid_accommodation_hosts_of(users, accommodations))>>
             ELSE <<>>)
    IN IF issues = <<>> THEN [type |-> "str", value |-> success_message]
       ELSE [type |-> "list", value |-> issues]

validate_tables_call ==
    /\ pc = "validate_tables"
    /\ loc' = [fn |-> "validate_tables",
               validation_result |->
                  validate_tables(data["users"], data["admins"], data["accommodations"])]
    /\ pc' = "done"
    /\ UNCHANGED <<args, data>>

\* the numbers of rows explored
ValidationSizes == {0} \cup ((min_entries - 1)..(min_entries + MaxRowsOverFloor))

\* a Users table of n rows whose odd ids are hosts and whose even ids are
\* admins
ValidationUsers(n) ==
    [i \in 1..n |-> [UserID |-> i, UserType |-> IF i % 2 = 1 THEN "host" ELSE "admin"]]

\* an Admins table of n rows for the users first + 1 .. first + n
ValidationAdmins(n, first) ==
    [i \in 1..n |-> [AdminID |-> i, UserID |-> first + i]]

\* an Accommodations table of n rows that all have the same host
ValidationAccommodations(n, host_id) ==
    [i \in 1..n |-> [AccommodationID |-> i, HostID |-> host_id]]

InitValidation ==
    /\ pc = "validate_tables"
    /\ args = [calls |-> <<"validate_tables">>]
    /\ \E u \in ValidationSizes, a \in ValidationSizes, c \in ValidationSizes :
       \E first \in {0, 1, 3}, host_id \in {1, 2, 99} :
          data = [users |-> ValidationUsers(u),
                  admins |-> ValidationAdmins(a, first),
                  accommodations |-> ValidationAccommodations(c, host_id)]
    /\ loc = NoLoc

NextValidation == validate_tables_call

SpecValidation == InitValidation /\ [][NextValidation]_vars

ValidationReturned == pc = "done" /\ loc.fn = "validate_tables"

\* the five checks of the claim, in its order: TRUE when the check is violated
ViolatedChecks ==
    <<Len(data["users"]) < 20,
      Len(data["admins"]) < 20,
      \E i \in 1..Len(data["admins"]) :
         \A k \in 1..Len(data["users"]) :
            data["users"][k].UserID # data["admins"][i].UserID,
      Len(data["accommodations"]) < 20,
      \E i \in 1..Len(data["accommodations"]) :
         \A k \in 1..Len(data["users"]) :
            \/ data["users"][k].UserID # data["accommodations"][i].HostID
            \/ data["users"][k].UserType # "host">>

\* the UserIDs of the Admins table that no user has, and the HostIDs that
\* no host has
UnknownAdminUsers ==
    {data["admins"][i].UserID : i \in 1..Len(data["admins"])}
        \ {data["users"][k].UserID : k \in 1..Len(data["users"])}
UnknownHosts ==
    {data["accommodations"][i].HostID : i \in 1..Len(data["accommodations"])}
        \ {data["users"][k].UserID :
              k \in {j \in 1..Len(data["users"]) : data["users"][j].UserType = "host"}}

\* the ids a reference issue names are the ids without a parent, each once
NamedIds(invalid_ids, unknown) ==
    /\ Range(set_keys(invalid_ids)) = unknown
    /\ Len(set_keys(invalid_ids)) = Cardinality(unknown)

\* the issue of each check; a reference issue names the ids of the set
\* difference in the order Python iterates over it
CheckIssues ==
    <<users_issue, admins_issue,
      admin_users_issue(invalid_admin_users_of(data["users"], data["admins"])),
      accommodations_issue,
      accommodation_hosts_issue(
          invalid_accommodation_hosts_of(data["users"], data["accommodations"]))>>

\* C16: validate_tables returns the success string if and only if the three
\* tables have at least 20 rows, every Admins.UserID is a Users.UserID and
\* every Accommodations.HostID is the UserID of a host; otherwise it returns
\* the non-empty list of the violated checks in the order users count, admins
\* count, admin foreign key, accommodations count, host foreign key.
C16_ValidateTables ==
    ValidationReturned =>
        LET violated == SelectSeq(<<1, 2, 3, 4, 5>>, LAMBDA c : ViolatedChecks[c])
        IN IF violated = <<>>
           THEN loc.validation_result = [type |-> "str", value |-> success_message]
           ELSE /\ loc.validation_result.type = "list"
                /\ loc.validation_result.value # <<>>
                /\ loc.validation_result.value
                      = [k \in 1..Len(violated) |-> CheckIssues[violated[k]]]
                /\ NamedIds(invalid_admin_users_of(data["users"], data["admins"]),
                            UnknownAdminUsers)
                /\ NamedIds(invalid_accommodation_hosts_of(data["users"],
                                                           data["accommodations"]),
                            UnknownHosts)

\* witness of C16: three tables of 20 rows or more whose only issues are
\* three admins of unknown users and a host that is an admin
C16_Witness ==
    /\ ValidationReturned
    /\ Len(data["users"]) = 21
    /\ Len(data["admins"]) = 21
    /\ Len(data["accommodations"]) = 20
    /\ data["accommodations"][1].HostID = 2
    /\ loc.validation_result
          = [type |-> "list",
             value |->
                <<"Admin table has UserIDs that do not exist in Users table: {24, 22, 23}.",
                  "Accommodation table has HostIDs that are not valid Hosts in Users table: {2}.">>]

\* witness of C16, second case: the success string is returned
C16_WitnessSuccess ==
    /\ ValidationReturned
    /\ loc.validation_result = [type |-> "str", value |-> success_message]

----------------------------------------------------------------------------
(* populate_payment_table(booking_data) *)

MaxPaymentBookings == 2

\* mutant: every booking that did not fail to pay is taken
paid_bookings_not_failed(booking_data) ==
    SelectSeq([i \in 1..Len(booking_data) |-> i],
              LAMBDA i : booking_data[i].PaymentStatus # "failed")

\* paid_bookings = booking_data[booking_data['PaymentStatus'] == 'paid'], as
\* the positions of its rows in booking_data: position p has index p - 1
paid_bookings_of(booking_data) ==
    SelectSeq([i \in 1..Len(booking_data) |-> i],
              LAMBDA i : booking_data[i].PaymentStatus = "paid")

\* an empty Bookings table, or one without paid booking, raises ValueError:
\* the empty Payments table is returned
populate_payment_table_call ==
    /\ pc = "populate_payment_table"
    /\ IF data["bookings"] = <<>> \/ paid_bookings_of(data["bookings"]) = <<>>
       THEN /\ data' = Put(data, "payments", <<>>)
            /\ pc' = Follow("populate_payment_table")
            /\ loc' = [fn |-> "populate_payment_table"]
       ELSE /\ loc' = [fn |-> "populate_payment_table",
                       paid_bookings |-> paid_bookings_of(data["bookings"]),
                       payments |-> <<>>,
                       k |-> 1]
            /\ pc' = "payment_loop"
            /\ data' = data
    /\ UNCHANGED args

\* for i, booking in paid_bookings.iterrows(): i is the index of the row in
\* booking_data; PaymentID is i + 1, the date is drawn between the check-in
\* and the check-out, round(TotalAmount, 2) is TotalAmount
populate_payment_table_row ==
    /\ pc = "payment_loop"
    /\ loc.k <= Len(loc.paid_bookings)
    /\ LET i == loc.paid_bookings[loc.k] - 1
           booking == data["bookings"][loc.paid_bookings[loc.k]]
       IN \E payment_date \in DateBetween(booking.CheckInDate, booking.CheckOutDate) :
            loc' = [loc EXCEPT
                      !.payments = Append(@, [PaymentID |-> i + 1,
                                              BookingID |-> booking.BookingID,
                                              PaymentDate |-> payment_date,
                                              Amount |-> booking.TotalAmount]),
                      !.k = @ + 1]
    /\ UNCHANGED <<pc, args, data>>

\* a payment of an unknown booking raises ValueError
populate_payment_table_return ==
    /\ pc = "payment_loop"
    /\ loc.k > Len(loc.paid_bookings)
    /\ LET missing_bookings ==
              Column(loc.payments, "BookingID") \ Column(data["bookings"], "BookingID")
       IN data' = Put(data, "payments",
                      IF missing_bookings # {} THEN <<>> ELSE loc.payments)
    /\ pc' = Follow("populate_payment_table")
    /\ UNCHANGED <<args, loc>>

\* the Bookings tables of n confirmed rows of accommodation 1 with any stays
\* and payment statuses
PaymentBookingTables(n) ==
    {[i \in 1..n |-> BookingRow(i, 1, f[i][1], "confirmed", f[i][2])] :
        f \in [1..n -> BookingStays \X {"paid", "unpaid", "failed"}]}

InitPayments ==
    /\ pc = "populate_payment_table"
    /\ args = [calls |-> <<"populate_payment_table">>]
    /\ \E n \in 0..MaxPaymentBookings :
         \E bookings \in PaymentBookingTables(n) :
            data = [bookings |-> bookings]
    /\ loc = NoLoc

NextPayments ==
    \/ populate_payment_table_call
    \/ populate_payment_table_row
    \/ populate_payment_table_return

SpecPayments == InitPayments /\ [][NextPayments]_vars

PaymentsReturned == pc = "done" /\ "payments" \in DOMAIN data

\* C17: the Payments table has exactly one row for each booking whose
\* PaymentStatus is 'paid' and none for any other booking; the row has the
\* booking's id, its Amount is the booking's TotalAmount and its PaymentDate
\* lies in [CheckInDate, CheckOutDate] of the booking.
C17_PaymentsOfPaidBookings ==
    PaymentsReturned =>
        /\ \A i \in 1..Len(data["bookings"]) :
              LET b == data["bookings"][i]
                  rows == {k \in 1..Len(data["payments"]) :
                              data["payments"][k].BookingID = b.BookingID}
              IN Cardinality(rows) = IF b.PaymentStatus = "paid" THEN 1 ELSE 0
        /\ \A k \in 1..Len(data["payments"]) :
              \E i \in 1..Len(data["bookings"]) :
                 LET b == data["bookings"][i]
                     p == data["payments"][k]
                 IN /\ p.BookingID = b.BookingID
                    /\ p.Amount = b.TotalAmount
                    /\ b.CheckInDate <= p.PaymentDate
                    /\ p.PaymentDate <= b.CheckOutDate

\* witness of C17: of two bookings the second one only is paid, and it is
\* paid on its check-out day
C17_Witness ==
    /\ PaymentsReturned
    /\ Len(data["bookings"]) = 2
    /\ data["bookings"][1].PaymentStatus = "unpaid"
    /\ Len(data["payments"]) = 1
    /\ data["payments"][1].BookingID = 2
    /\ data["payments"][1].PaymentDate = data["bookings"][2].CheckOutDate

\* the primary-key column of the tables that have one
PrimaryKeys ==
    [users |-> "UserID", countries |-> "CountryID", cities |-> "CityID",
     accommodations |-> "AccommodationID", bookings |-> "BookingID",
     payments |-> "PaymentID", photos |-> "PhotoID", reviews |-> "ReviewID",
     admins |-> "AdminID", admin_actions |-> "ActionID",
     transactions |-> "TransactionID", profiles |-> "ProfileID",
     prices |-> "PriceID",
     accommodation_amenities |-> "AccommodationAmenityID",
     messages |-> "MessageID"]

\* C18: in every table that has a primary-key id column the ids of the N rows
\* are exactly 1..N in row order; in particular PaymentID is dense when only
\* some of the bookings are paid.
C18_DenseIds ==
    PaymentsReturned =>
        \A key \in DOMAIN data \cap DOMAIN PrimaryKeys :
            DenseIds(data[key], PrimaryKeys[key])

----------------------------------------------------------------------------
(* populate_cancellation_table(df_bookings, min_cancellations) *)

MaxCancellationBookings == 2
MaxMinCancellations == 2

\* start_date = pd.to_datetime("2024-01-01").date()
cancellation_start_date == 1

\* mutant: the check-in day itself is the latest cancellation date
cancellation_end_date_same_day(check_in_date) == check_in_date

\* end_date = check_in_date - timedelta(days=1)
cancellation_end_date_of(check_in_date) == check_in_date - 1

\* df_bookings[df_bookings["BookingStatus"] == "cancelled"], as positions
cancelled_bookings_of(df_bookings) ==
    SelectSeq([i \in 1..Len(df_bookings) |-> i],
              LAMBDA i : df_bookings[i].BookingStatus = "cancelled")

\* mutant: every booking can be drawn to reach min_cancellations
eligible_bookings_any_status(df_bookings) ==
    [i \in 1..Len(df_bookings) |-> i]

\* df_bookings[df_bookings["BookingStatus"] != "cancelled"], as positions
eligible_bookings_of(df_bookings) ==
    SelectSeq([i \in 1..Len(df_bookings) |-> i],
              LAMBDA i : df_bookings[i].BookingStatus # "cancelled")

\* eligible_bookings.sample(n): n of the rows, in any order
SampleOf(positions, n) ==
    UNION {Orderings(T) : T \in {U \in SUBSET Range(positions) : Cardinality(U) = n}}

\* cancelled_bookings: the cancelled bookings, then, when they are fewer
\* than min_cancellations, a sample of the other bookings
populate_cancellation_table_call ==
    /\ pc = "populate_cancellation_table"
    /\ LET cancelled == cancelled_bookings_of(data["bookings"])
           eligible == eligible_bookings_of(data["bookings"])
           additional_cancellations_needed == args.min_cancellations - Len(cancelled)
       IN \E additional \in
                IF Len(cancelled) < args.min_cancellations
                THEN SampleOf(eligible,
                              Min(additional_cancellations_needed, Len(eligible)))
                ELSE {<<>>} :
             loc' = [fn |-> "populate_cancellation_table",
                     cancelled_bookings |-> cancelled \o additional,
                     cancellations |-> <<>>,
                     k |-> 1]
    /\ pc' = "cancellation_loop"
    /\ UNCHANGED <<args, data>>

\* for _, booking in cancelled_bookings.iterrows(): the date is drawn between
\* 2024-01-01 and the day before the check-in
populate_cancellation_table_row ==
    /\ pc = "cancellation_loop"
    /\ loc.k <= Len(loc.cancelled_bookings)
    /\ LET booking == data["bookings"][loc.cancelled_bookings[loc.k]]
       IN \E cancellation_date \in
                DateBetween(cancellation_start_date,
                            cancellation_end_date_of(booking.CheckInDate)) :
            loc' = [loc EXCEPT
                      !.cancellations =
                         Append(@, [BookingID |-> booking.BookingID,
                                    CancellationDate |-> cancellation_date]),
                      !.k = @ + 1]
    /\ UNCHANGED <<pc, args, data>>

populate_cancellation_table_return ==
    /\ pc = "cancellation_loop"
    /\ loc.k > Len(loc.cancelled_bookings)
    /\ data' = Put(data, "cancellations", loc.cancellations)
    /\ pc' = Follow("populate_cancellation_table")
    /\ UNCHANGED <<args, loc>>

\* the Bookings tables of n paid rows of accommodation 1 with any stays and
\* booking statuses
CancellationBookingTables(n) == BookingTables(n, 1)

InitCancellations ==
    /\ pc = "populate_cancellation_table"
    /\ \E m \in 0..MaxMinCancellations :
         args = [calls |-> <<"populate_cancellation_table">>, min_cancellations |-> m]
    /\ \E n \in 0..MaxCancellationBookings :
         \E bookings \in CancellationBookingTables(n) :
            data = [bookings |-> bookings]
    /\ loc = NoLoc

NextCancellations ==
    \/ populate_cancellation_table_call
    \/ populate_cancellation_table_row
    \/ populate_cancellation_table_return

SpecCancellations == InitCancellations /\ [][NextCancellations]_vars

CancellationsReturned == pc = "done" /\ "cancellations" \in DOMAIN data

\* C19: every row of the Cancellations table has the id of an existing
\* booking and a CancellationDate on or after 2024-01-01 and strictly before
\* that booking's CheckInDate.
C19_CancellationBeforeCheckIn ==
    CancellationsReturned =>
        \A k \in 1..Len(data["cancellations"]) :
            \E i \in 1..Len(data["bookings"]) :
               LET b == data["bookings"][i]
                   c == data["cancellations"][k]
               IN /\ c.BookingID = b.BookingID
                  /\ c.CancellationDate >= 1
                  /\ c.CancellationDate < b.CheckInDate

\* witness of C19: a cancelled booking is cancelled on 2024-01-01 and a
\* booking taken to reach min_cancellations on the day before its check-in
C19_Witness ==
    /\ CancellationsReturned
    /\ Len(data["cancellations"]) = 2
    /\ data["bookings"][1].BookingStatus # "cancelled"
    /\ data["bookings"][2].BookingStatus = "cancelled"
    /\ data["cancellations"][1] = [BookingID |-> 2, CancellationDate |-> 1]
    /\ data["cancellations"][2]
          = [BookingID |-> 1,
             CancellationDate |-> data["bookings"][1].CheckInDate - 1]

----------------------------------------------------------------------------
(* populate_host_response_table(reviews, min_responses) *)

MaxReviews == 3
MaxMinResponses == 2

\* the Reviews table of populate_review_table: ReviewID counts from 1
ReviewTables(n) == [i \in 1..n |-> [ReviewID |-> i]]

\* random.sample(eligible_reviews, additional_responses_needed): that many
\* elements of the whole list, by position, in any order
additional_reviews_of(eligible_reviews, n) ==
    {[k \in 1..Len(p) |-> eligible_reviews[p[k]]] :
        p \in SampleOf([i \in 1..Len(eligible_reviews) |-> i], n)}

\* reviews.empty or len(eligible_reviews) < min_responses: ValueError, the
\* empty table; otherwise the first pass starts
populate_host_response_table_call ==
    /\ pc = "populate_host_response_table"
    /\ LET eligible_reviews ==
               [i \in 1..Len(data["reviews"]) |-> data["reviews"][i].ReviewID]
       IN IF Len(data["reviews"]) = 0 \/ Len(eligible_reviews) < args.min_responses
          THEN /\ data' = Put(data, "host_responses", <<>>)
               /\ pc' = Follow("populate_host_response_table")
               /\ UNCHANGED loc
          ELSE /\ loc' = [fn |-> "populate_host_response_table",
                          eligible_reviews |-> eligible_reviews,
                          host_responses |-> <<>>,
                          k |-> 1]
               /\ pc' = "host_response_first_pass"
               /\ UNCHANGED data
    /\ UNCHANGED args

\* for review_id in eligible_reviews: if random.random() < 0.5 a response
populate_host_response_table_review ==
    /\ pc = "host_response_first_pass"
    /\ loc.k <= Len(loc.eligible_reviews)
    /\ \E responds \in BOOLEAN :
         loc' = [loc EXCEPT
                   !.host_responses =
                      IF responds
                      THEN Append(@, [ReviewID |-> loc.eligible_reviews[loc.k]])
                      ELSE @,
                   !.k = @ + 1]
    /\ UNCHANGED <<pc, args, data>>

\* the second pass and the return
populate_host_response_table_return ==
    /\ pc = "host_response_first_pass"
    /\ loc.k > Len(loc.eligible_reviews)
    /\ LET additional_responses_needed ==
               Max(0, args.min_responses - Len(loc.host_responses))
       IN \E additional_reviews \in
               additional_reviews_of(loc.eligible_reviews,
                                     additional_responses_needed) :
            data' = Put(data, "host_responses",
                        loc.host_responses \o
                        [k \in 1..Len(additional_reviews) |->
                            [ReviewID |-> additional_reviews[k]]])
    /\ pc' = Follow("populate_host_response_table")
    /\ UNCHANGED <<args, loc>>

InitHostResponses ==
    /\ pc = "populate_host_response_table"
    /\ \E m \in 0..MaxMinResponses :
         args = [calls |-> <<"populate_host_response_table">>, min_responses |-> m]
    /\ \E n \in 0..MaxReviews : data = [reviews |-> ReviewTables(n)]
    /\ loc = NoLoc

NextHostResponses ==
    \/ populate_host_response_table_call
    \/ populate_host_response_table_review
    \/ populate_host_response_table_return

SpecHostResponses == InitHostResponses /\ [][NextHostResponses]_vars

HostResponsesReturned == pc = "done" /\ "host_responses" \in DOMAIN data

\* C20: in the HostResponses table every ReviewID is the id of an existing
\* review and no ReviewID occurs in more than one row, the rows of the
\* second pass included.
C20_OneResponsePerReview ==
    HostResponsesReturned =>
        LET responses == data["host_responses"]
        IN /\ \A k \in 1..Len(responses) :
                 \E i \in 1..Len(data["reviews"]) :
                    responses[k].ReviewID = data["reviews"][i].ReviewID
           /\ \A j, k \in 1..Len(responses) :
                 responses[j].ReviewID = responses[k].ReviewID => j = k

----------------------------------------------------------------------------
(* populate_review_table(accommodations, bookings, users, min_reviews) *)

MaxReviewBookings == 2
MaxMinReviews == 2
MaxReviewParents == 2

\* rating = random.randint(3, 5)
RatingDraws == 3..5

\* date.today() when the reviews are generated, read from the clock of the
\* machine: 2026-10-30, counted in days from 2024-01-01 (day 1)
TodayDraws == {1034}

\* start_date='-2y': Faker adds timedelta(days=-2 * 365.24) to today, and a
\* date plus -730.48 days is the date 731 days before
two_years_before(today) == today - 731

\* mutant: the bookings are filtered on the wrong status
reviewed_bookings_cancelled(bookings) ==
    SelectSeq([i \in 1..Len(bookings) |-> i],
              LAMBDA i : bookings[i].BookingStatus = "cancelled")

\* bookings[bookings["BookingStatus"] == "confirmed"], as positions
reviewed_bookings_of(bookings) ==
    SelectSeq([i \in 1..Len(bookings) |-> i],
              LAMBDA i : bookings[i].BookingStatus = "confirmed")

\* an empty parent or no confirmed booking: ValueError, the empty table;
\* otherwise the loop over the confirmed bookings starts
populate_review_table_call ==
    /\ pc = "populate_review_table"
    /\ LET confirmed_bookings == reviewed_bookings_of(data["bookings"])
       IN IF \/ Len(data["accommodations"]) = 0
             \/ Len(data["bookings"]) = 0
             \/ Len(data["users"]) = 0
             \/ Len(confirmed_bookings) = 0
          THEN /\ data' = Put(data, "reviews", <<>>)
               /\ pc' = Follow("populate_review_table")
               /\ UNCHANGED loc
          ELSE /\ loc' = [fn |-> "populate_review_table",
                          confirmed_bookings |-> confirmed_bookings,
                          reviews |-> <<>>,
                          review_id |-> 1,
                          k |-> 1,
                          additional_reviews_needed |-> 0]
               /\ pc' = "review_loop"
               /\ UNCHANGED data
    /\ UNCHANGED args

\* for _, booking in confirmed_bookings.iterrows(): one review of the
\* booking's accommodation by its guest, dated from the check-in to today
populate_review_table_booking ==
    /\ pc = "review_loop"
    /\ loc.k <= Len(loc.confirmed_bookings)
    /\ LET booking == data["bookings"][loc.confirmed_bookings[loc.k]]
       IN \E rating \in RatingDraws,
             review_date \in DateBetween(booking.CheckInDate, args.today) :
            loc' = [loc EXCEPT
                      !.reviews = Append(@, [ReviewID |-> loc.review_id,
                                             AccommodationID |-> booking.AccommodationID,
                                             UserID |-> booking.GuestID,
                                             Rating |-> rating,
                                             ReviewDate |-> review_date]),
                      !.review_id = @ + 1,
                      !.k = @ + 1]
    /\ UNCHANGED <<pc, args, data>>

\* additional_reviews_needed = max(0, min_reviews - len(reviews))
populate_review_table_needed ==
    /\ pc = "review_loop"
    /\ loc.k > Len(loc.confirmed_bookings)
    /\ loc' = [loc EXCEPT !.additional_reviews_needed =
                             Max(0, args.min_reviews - Len(loc.reviews))]
    /\ pc' = "review_additional"
    /\ UNCHANGED <<args, data>>

\* while additional_reviews_needed > 0: a review of any accommodation by any
\* user, dated in the last two years
populate_review_table_additional ==
    /\ pc = "review_additional"
    /\ loc.additional_reviews_needed > 0
    /\ \E accommodation_id \in Column(data["accommodations"], "AccommodationID"),
          user_id \in Column(data["users"], "UserID"),
          rating \in RatingDraws,
          review_date \in DateBetween(two_years_before(args.today), args.today) :
         loc' = [loc EXCEPT
                   !.reviews = Append(@, [ReviewID |-> loc.review_id,
                                          AccommodationID |-> accommodation_id,
                                          UserID |-> user_id,
                                          Rating |-> rating,
                                          ReviewDate |-> review_date]),
                   !.review_id = @ + 1,
                   !.additional_reviews_needed = @ - 1]
    /\ UNCHANGED <<pc, args, data>>

populate_review_table_return ==
    /\ pc = "review_additional"
    /\ loc.additional_reviews_needed = 0
    /\ data' = Put(data, "reviews", loc.reviews)
    /\ pc' = Follow("populate_review_table")
    /\ UNCHANGED <<args, loc>>

\* the bookings explored among p accommodations and p users: with two of
\* each, guest 1 in accommodation 2 on the first night of the window and
\* guest 2 in accommodation 1 on its last night; with one of each, guest 1
\* in accommodation 1 on the last night; confirmed or cancelled
ReviewBookingDraws(p) ==
    (IF p = 1
     THEN {<<(<<end_date - 1, end_date>>), (<<1, 1>>)>>}
     ELSE {<<(<<start_date, start_date + 1>>), (<<1, 2>>)>>,
           <<(<<end_date - 1, end_date>>), (<<2, 1>>)>>})
        \X {"confirmed", "cancelled"}

\* the Bookings tables of n rows among p accommodations and p users
ReviewBookingTables(n, p) ==
    {[i \in 1..n |->
        [BookingRow(i, f[i][1][2][2], f[i][1][1], f[i][2], "paid")
            EXCEPT !.GuestID = f[i][1][2][1]]] :
        f \in [1..n -> ReviewBookingDraws(p)]}

\* the runs explored: a review has thousands of dates, so that two reviews
\* are generated in two kinds of run only: among one accommodation and one
\* user, from a table of one booking; and among two of each, from the table
\* of two confirmed bookings, the first of guest 1 and the second of guest 2,
\* with min_reviews = 0. The other runs generate at most one review.
ReviewRunExplored(p, m, bookings) ==
    LET confirmed == Cardinality({i \in 1..Len(bookings) :
                                     bookings[i].BookingStatus = "confirmed"})
    IN IF p = 1
       THEN Len(bookings) <= 1
       ELSE \/ confirmed = 0
            \/ confirmed = 1 /\ m <= 1
            \/ /\ confirmed = 2
               /\ m = 0
               /\ Len(bookings) = 2
               /\ bookings[1].GuestID = 1
               /\ bookings[2].GuestID = 2

\* the parents of a run: without accommodations or users there is no booking
InitReviews ==
    /\ pc = "populate_review_table"
    /\ loc = NoLoc
    /\ \E m \in 0..MaxMinReviews, today \in TodayDraws,
          p \in 0..MaxReviewParents, n \in 0..MaxReviewBookings :
         /\ p = 0 => n = 0
         /\ args = [calls |-> <<"populate_review_table">>,
                    min_reviews |-> m, today |-> today]
         /\ \E bookings \in ReviewBookingTables(n, p) :
              /\ ReviewRunExplored(p, m, bookings)
              /\ data = [accommodations |-> [i \in 1..p |-> [AccommodationID |-> i]],
                         users |-> [i \in 1..p |-> [UserID |-> i]],
                         bookings |-> bookings]

NextReviews ==
    \/ populate_review_table_call
    \/ populate_review_table_booking
    \/ populate_review_table_needed
    \/ populate_review_table_additional
    \/ populate_review_table_return

SpecReviews == InitReviews /\ [][NextReviews]_vars

ReviewsReturned == pc = "done" /\ "reviews" \in DOMAIN data

\* C21: when a confirmed booking exists, the k-th review is the review of
\* the k-th confirmed booking, with its AccommodationID and GuestID and a
\* ReviewDate not before its CheckInDate; the table has
\* max(count(confirmed bookings), min_reviews) rows and every Rating is 3, 4
\* or 5.
C21_ReviewsOfConfirmedBookings ==
    LET confirmed == SelectSeq(data["bookings"],
                               LAMBDA b : b.BookingStatus = "confirmed")
    IN (ReviewsReturned /\ Len(confirmed) > 0) =>
          /\ Len(data["reviews"]) = Max(Len(confirmed), args.min_reviews)
          /\ \A k \in 1..Len(confirmed) :
                /\ data["reviews"][k].AccommodationID = confirmed[k].AccommodationID
                /\ data["reviews"][k].UserID = confirmed[k].GuestID
                /\ data["reviews"][k].ReviewDate >= confirmed[k].CheckInDate
          /\ \A k \in 1..Len(data["reviews"]) :
                data["reviews"][k].Rating \in {3, 4, 5}

\* witness of C21: one accommodation, one user, one confirmed booking and
\* min_reviews = 2: the review of the booking, dated today, and one random
\* review dated 731 days before today
C21_Witness ==
    /\ ReviewsReturned
    /\ args.min_reviews = 2
    /\ Len(data["bookings"]) = 1
    /\ data["bookings"][1].BookingStatus = "confirmed"
    /\ Len(data["reviews"]) = 2
    /\ data["reviews"][1].UserID = data["bookings"][1].GuestID
    /\ data["reviews"][1].ReviewDate = args.today
    /\ data["reviews"][1].Rating = 5
    /\ data["reviews"][2].ReviewDate = args.today - 731
    /\ data["reviews"][2].Rating = 3

\* witness of C21, second case: two confirmed bookings, of guest 1 in
\* accommodation 2 and of guest 2 in accommodation 1, each with its review,
\* in the order of the bookings
C21_WitnessTwoBookings ==
    /\ ReviewsReturned
    /\ Len(data["bookings"]) = 2
    /\ Len(data["reviews"]) = 2
    /\ data["reviews"][1].UserID = 1
    /\ data["reviews"][1].AccommodationID = 2
    /\ data["reviews"][1].ReviewDate = data["bookings"][1].CheckInDate
    /\ data["reviews"][2].UserID = 2
    /\ data["reviews"][2].AccommodationID = 1
    /\ data["reviews"][2].ReviewDate = args.today

----------------------------------------------------------------------------
(* populate_admin_table(users, min_admins) *)

MaxAdminUsers == 3
MaxAdminFloor == 2

\* roles = ['SuperAdmin', 'Admin', 'Moderator']
roles == {"SuperAdmin", "Admin", "Moderator"}

\* mutant: every user that is not a guest is listed
admin_users_not_guest(users) ==
    SelectSeq(users, LAMBDA user : user.UserType # "guest")

\* admin_users = users[users["UserType"] == "admin"]
admin_users_of(users) ==
    SelectSeq(users, LAMBDA user : user.UserType = "admin")

\* no user, or fewer admin users than min_admins: ValueError, the empty
\* table; otherwise the loop over the admin users starts
populate_admin_table_call ==
    /\ pc = "populate_admin_table"
    /\ IF Len(data["users"]) = 0
          \/ Len(admin_users_of(data["users"])) < args.min_admins
       THEN /\ data' = Put(data, "admins", <<>>)
            /\ pc' = Follow("populate_admin_table")
            /\ UNCHANGED loc
       ELSE /\ loc' = [fn |-> "populate_admin_table",
                       admin_users |-> admin_users_of(data["users"]),
                       admin_entries |-> <<>>]
            /\ pc' = "admin_loop"
            /\ UNCHANGED data
    /\ UNCHANGED args

\* for _, user in admin_users.iterrows(): one entry with the next AdminID
populate_admin_table_row ==
    /\ pc = "admin_loop"
    /\ Len(loc.admin_entries) < Len(loc.admin_users)
    /\ \E role \in roles :
         loc' = [loc EXCEPT !.admin_entries =
                    Append(@, [AdminID |-> Len(loc.admin_entries) + 1,
                               UserID |-> loc.admin_users[Len(loc.admin_entries) + 1].UserID,
                               Role |-> role])]
    /\ UNCHANGED <<pc, args, data>>

populate_admin_table_return ==
    /\ pc = "admin_loop"
    /\ Len(loc.admin_entries) >= Len(loc.admin_users)
    /\ data' = Put(data, "admins", loc.admin_entries)
    /\ pc' = Follow("populate_admin_table")
    /\ UNCHANGED <<args, loc>>

InitAdmins ==
    /\ pc = "populate_admin_table"
    /\ \E min_admins \in 0..MaxAdminFloor :
         args = [calls |-> <<"populate_admin_table">>, min_admins |-> min_admins]
    /\ \E n \in 0..MaxAdminUsers : \E users \in UserTables(n) :
         data = [users |-> users]
    /\ loc = NoLoc

NextAdmins ==
    \/ populate_admin_table_call
    \/ populate_admin_table_row
    \/ populate_admin_table_return

SpecAdmins == InitAdmins /\ [][NextAdmins]_vars

AdminsReturned == pc = "done" /\ "admins" \in DOMAIN data

\* the UserIDs of the users of the given type
UserIDsOfType(users, user_type) ==
    {users[i].UserID : i \in {j \in 1..Len(users) : users[j].UserType = user_type}}

\* C22: with at least min_admins admin users the Admins table has exactly
\* one row per admin user, with distinct UserIDs and no row of a host or a
\* guest; with fewer it is empty.
C22_OneRowPerAdminUser ==
    AdminsReturned =>
        LET admins == data["admins"]
            admin_ids == UserIDsOfType(data["users"], "admin")
        IN IF Cardinality(admin_ids) >= args.min_admins
           THEN /\ Len(admins) = Cardinality(admin_ids)
                /\ {admins[k].UserID : k \in 1..Len(admins)} = admin_ids
           ELSE admins = <<>>

\* witness of C22: three users, the host first, and both admin users listed
C22_Witness ==
    /\ AdminsReturned
    /\ args.min_admins = 2
    /\ Len(data["users"]) = 3
    /\ data["users"][1].UserType = "host"
    /\ Len(data["admins"]) = 2
    /\ data["admins"][1].UserID = 2
    /\ data["admins"][2].UserID = 3

----------------------------------------------------------------------------
(* populate_photo_table(df_accommodations, total_photos) *)

MaxPhotoAccommodations == 3
MaxTotalPhotos == 4

\* min_photos = 1 and the 10 of random.randint(min_photos, min(10, total_photos))
min_photos == 1
max_photos_per_draw == 10

\* n photos of one accommodation, numbered from photo_id
PhotosOf(accommodation_id, photo_id, n) ==
    [k \in 1..n |-> [PhotoID |-> photo_id + k - 1,
                     AccommodationID |-> accommodation_id]]

\* no accommodation: ValueError, the empty table; otherwise the loop over
\* the accommodations starts
populate_photo_table_call ==
    /\ pc = "populate_photo_table"
    /\ IF Len(data["accommodations"]) = 0
       THEN /\ data' = Put(data, "photos", <<>>)
            /\ pc' = Follow("populate_photo_table")
            /\ UNCHANGED loc
       ELSE /\ loc' = [fn |-> "populate_photo_table",
                       photos |-> <<>>,
                       accommodation_ids |->
                          [i \in 1..Len(data["accommodations"]) |->
                              data["accommodations"][i].AccommodationID],
                       total_photos |-> args.total_photos,
                       k |-> 1]
            /\ pc' = "photo_loop"
            /\ UNCHANGED data
    /\ UNCHANGED args

\* for accommodation_id in accommodation_ids: between 1 and
\* min(10, total_photos) photos of it; the loop is left as soon as the
\* quota is used up. random.randint raises ValueError on an empty range.
populate_photo_table_accommodation ==
    /\ pc = "photo_loop"
    /\ loc.k <= Len(loc.accommodation_ids)
    /\ LET highest == Min(max_photos_per_draw, loc.total_photos)
       IN IF highest < min_photos
          THEN /\ data' = Put(data, "photos", <<>>)
               /\ pc' = Follow("populate_photo_table")
               /\ UNCHANGED loc
          ELSE \E num_photos \in min_photos..highest :
                 /\ loc' = [loc EXCEPT
                              !.photos = @ \o PhotosOf(loc.accommodation_ids[loc.k],
                                                       Len(@) + 1, num_photos),
                              !.total_photos = @ - num_photos,
                              !.k = @ + 1]
                 /\ pc' = IF loc.total_photos - num_photos <= 0
                             \/ loc.k = Len(loc.accommodation_ids)
                          THEN "photo_additional"
                          ELSE "photo_loop"
                 /\ UNCHANGED data
    /\ UNCHANGED args

\* while total_photos > 0: one more photo of any accommodation
populate_photo_table_additional ==
    /\ pc = "photo_additional"
    /\ loc.total_photos > 0
    /\ \E random_accommodation \in Range(loc.accommodation_ids) :
         loc' = [loc EXCEPT
                   !.photos = @ \o PhotosOf(random_accommodation, Len(@) + 1, 1),
                   !.total_photos = @ - 1]
    /\ UNCHANGED <<pc, args, data>>

populate_photo_table_return ==
    /\ pc = "photo_additional"
    /\ loc.total_photos <= 0
    /\ data' = Put(data, "photos", loc.photos)
    /\ pc' = Follow("populate_photo_table")
    /\ UNCHANGED <<args, loc>>

InitPhotos ==
    /\ pc = "populate_photo_table"
    /\ \E total_photos \in 0..MaxTotalPhotos :
         args = [calls |-> <<"populate_photo_table">>, total_photos |-> total_photos]
    /\ \E n \in 0..MaxPhotoAccommodations :
         data = [accommodations |-> [i \in 1..n |-> [AccommodationID |-> i]]]
    /\ loc = NoLoc

NextPhotos ==
    \/ populate_photo_table_call
    \/ populate_photo_table_accommodation
    \/ populate_photo_table_additional
    \/ populate_photo_table_return

SpecPhotos == InitPhotos /\ [][NextPhotos]_vars

PhotosReturned == pc = "done" /\ "photos" \in DOMAIN data

\* C23: for a non-empty Accommodations table and total_photos at least the
\* number of accommodations, every AccommodationID has at least one row in
\* the Photos table.
C23_EveryAccommodationHasAPhoto ==
    (/\ PhotosReturned
     /\ Len(data["accommodations"]) > 0
     /\ args.total_photos >= Len(data["accommodations"])) =>
        \A i \in 1..Len(data["accommodations"]) :
           \E k \in 1..Len(data["photos"]) :
              data["photos"][k].AccommodationID
                 = data["accommodations"][i].AccommodationID

----------------------------------------------------------------------------
(* main: the tables written through to_csv *)

\* how many times the table of the key was written
TimesWritten(key) ==
    Cardinality({k \in 1..Len(loc.written) : loc.written[k] = key})

\* C24: when main has run, every table of the map has been written through
\* to_csv exactly once, the tables of the generators that returned an empty
\* result after a failure included.
C24_EveryTableWrittenOnce ==
    MainCompleted => \A key \in TableKeys : TimesWritten(key) = 1

----------------------------------------------------------------------------
(* main: empty parents *)

\* the pairs <<parent, child>> of a table and a generator that requires it
RequiredParents ==
    {<<"accommodations", "photos">>,
     <<"accommodations", "accommodation_house_rules">>,
     <<"accommodations", "accommodation_amenities">>,
     <<"accommodations", "bookings">>,
     <<"accommodations", "availability">>,
     <<"accommodations", "prices">>,
     <<"accommodations", "reviews">>,
     <<"bookings", "payments">>,
     <<"bookings", "cancellations">>,
     <<"bookings", "availability">>,
     <<"bookings", "commissions">>,
     <<"bookings", "reviews">>,
     <<"payments", "transactions">>,
     <<"admins", "admin_actions">>,
     <<"reviews", "host_responses">>}

\* C25: nothing is raised in main, and whenever a table is empty every table
\* generated from it as a required parent is empty too: Photos, both link
\* tables, Bookings, Availability, Prices and Reviews for Accommodations;
\* Payments, Cancellations, Availability, Commissions and Reviews for
\* Bookings; Transactions for Payments; AdminActions for Admins;
\* HostResponses for Reviews.
C25_EmptyParentEmptyChild ==
    /\ pc # "raised"
    /\ \A pair \in RequiredParents :
          (/\ pair[1] \in DOMAIN data
           /\ pair[2] \in DOMAIN data
           /\ data[pair[1]].empty) => data[pair[2]].empty

\* witness of C25: main has run with empty Accommodations and Admins tables,
\* hence with empty Bookings, Payments and Reviews
C25_Witness ==
    /\ MainCompleted
    /\ data["accommodations"].empty
    /\ data["admins"].empty
    /\ data["bookings"].empty
    /\ data["payments"].empty
    /\ data["reviews"].empty
    /\ \A pair \in RequiredParents : data[pair[2]].empty

----------------------------------------------------------------------------
(* populate_user_table: the order of the roles *)

\* C26: in the returned Users table, with A admins and H hosts, the users
\* 1..A are the admins, A+1..A+H the hosts and every later user is a guest;
\* the table has max(num_users, 20 x min_admins) rows with UserID 1, 2, ...
C26_RolesInIdOrder ==
    UsersReturned =>
        LET users == data["users"]
            A == CountRows(users, IsAdmin)
            H == CountRows(users, IsHost)
        IN /\ Len(users) = Max(args.num_users, 20 * args.min_admins)
           /\ \A i \in 1..Len(users) :
                 /\ users[i].UserID = i
                 /\ users[i].UserType = IF i <= A THEN "admin"
                                        ELSE IF i <= A + H THEN "host"
                                        ELSE "guest"

\* witness of C26: 24 users, one admin, then six hosts, then guests
C26_Witness ==
    /\ UsersReturned
    /\ Len(data["users"]) = 24
    /\ data["users"][1].UserType = "admin"
    /\ data["users"][2].UserType = "host"
    /\ data["users"][7].UserType = "host"
    /\ data["users"][8].UserType = "guest"

----------------------------------------------------------------------------
(* populate_cancellation_table: the bookings listed *)

\* the BookingIDs of the rows of table t that satisfy Test
BookingIDsWhere(t, Test(_)) ==
    {t[i].BookingID : i \in {j \in 1..Len(t) : Test(t[j])}}

\* C27: the Cancellations table lists every cancelled booking, no booking
\* twice and only bookings of the table, and has
\* max(count(cancelled), min(min_cancellations, count(bookings))) rows: other
\* bookings are added only while the cancelled ones are fewer than
\* min_cancellations.
C27_CancellationFloor ==
    CancellationsReturned =>
        LET rows == data["cancellations"]
            listed == BookingIDsWhere(rows, LAMBDA r : TRUE)
            cancelled == BookingIDsWhere(data["bookings"],
                                         LAMBDA b : b.BookingStatus = "cancelled")
        IN /\ cancelled \subseteq listed
           /\ listed \subseteq BookingIDsWhere(data["bookings"], LAMBDA b : TRUE)
           /\ Cardinality(listed) = Len(rows)
           /\ Len(rows) = Max(Cardinality(cancelled),
                              Min(args.min_cancellations, Len(data["bookings"])))

\* witness of C27: two bookings, none cancelled, and min_cancellations = 1:
\* the second booking alone is listed
C27_Witness ==
    /\ CancellationsReturned
    /\ args.min_cancellations = 1
    /\ Len(data["bookings"]) = 2
    /\ \A i \in 1..2 : data["bookings"][i].BookingStatus # "cancelled"
    /\ Len(data["cancellations"]) = 1
    /\ data["cancellations"][1].BookingID = 2

----------------------------------------------------------------------------
(* populate_admin_action_table(admins, min_actions) *)

MaxActionAdmins == 2
MaxMinActions == 23

\* the 10 of total_actions = max(min_actions, len(admins) * 10)
actions_per_admin_floor == 10

\* total_actions = max(min_actions, len(admins) * 10)
total_actions_of(min_actions, admins) ==
    Max(min_actions, Len(admins) * actions_per_admin_floor)

\* mutant: the remainder of the division is dropped
num_actions_without_remainder(actions_per_admin, remaining_actions) ==
    actions_per_admin

\* num_actions = actions_per_admin + (1 if remaining_actions > 0 else 0)
num_actions_of(actions_per_admin, remaining_actions) ==
    actions_per_admin + (IF remaining_actions > 0 THEN 1 ELSE 0)

\* no admin: ValueError, the empty table; otherwise the actions are divided
\* among the admins
populate_admin_action_table_call ==
    /\ pc = "populate_admin_action_table"
    /\ IF Len(data["admins"]) = 0
       THEN /\ data' = Put(data, "admin_actions", <<>>)
            /\ pc' = Follow("populate_admin_action_table")
            /\ UNCHANGED loc
       ELSE /\ LET total_actions == total_actions_of(args.min_actions, data["admins"])
               IN loc' = [fn |-> "populate_admin_action_table",
                          admin_actions |-> <<>>,
                          actions_per_admin |-> total_actions \div Len(data["admins"]),
                          remaining_actions |-> total_actions % Len(data["admins"]),
                          k |-> 1]
            /\ pc' = "admin_action_loop"
            /\ UNCHANGED data
    /\ UNCHANGED args

\* for _, admin in admins.iterrows(): num_actions rows of the admin, numbered
\* on from the rows built so far
populate_admin_action_table_admin ==
    /\ pc = "admin_action_loop"
    /\ loc.k <= Len(data["admins"])
    /\ LET admin_id == data["admins"][loc.k].AdminID
           num_actions == num_actions_of(loc.actions_per_admin, loc.remaining_actions)
       IN loc' = [loc EXCEPT
                    !.admin_actions =
                       @ \o [j \in 1..num_actions |->
                               [ActionID |-> Len(@) + j, AdminID |-> admin_id]],
                    !.remaining_actions = IF @ > 0 THEN @ - 1 ELSE @,
                    !.k = @ + 1]
    /\ UNCHANGED <<pc, args, data>>

populate_admin_action_table_return ==
    /\ pc = "admin_action_loop"
    /\ loc.k > Len(data["admins"])
    /\ data' = Put(data, "admin_actions", loc.admin_actions)
    /\ pc' = Follow("populate_admin_action_table")
    /\ UNCHANGED <<args, loc>>

\* the Admins table of populate_admin_table for n admin users: AdminID 1..n
AdminTable(n) == [i \in 1..n |-> [AdminID |-> i, UserID |-> i]]

InitAdminActions ==
    /\ pc = "populate_admin_action_table"
    /\ \E min_actions \in 0..MaxMinActions :
         args = [calls |-> <<"populate_admin_action_table">>,
                 min_actions |-> min_actions]
    /\ \E n \in 0..MaxActionAdmins : data = [admins |-> AdminTable(n)]
    /\ loc = NoLoc

NextAdminActions ==
    \/ populate_admin_action_table_call
    \/ populate_admin_action_table_admin
    \/ populate_admin_action_table_return

SpecAdminActions == InitAdminActions /\ [][NextAdminActions]_vars

AdminActionsReturned == pc = "done" /\ "admin_actions" \in DOMAIN data

\* the number of actions of the admin in the returned table
ActionsOf(admin_id) ==
    Cardinality({k \in 1..Len(data["admin_actions"]) :
                    data["admin_actions"][k].AdminID = admin_id})

\* C28: for a non-empty Admins table the AdminActions table has
\* max(min_actions, 10 x count(admins)) rows, every AdminID is an id of the
\* Admins table, every admin has at least one action and the numbers of
\* actions of two admins differ by at most one.
C28_AdminActionsDivided ==
    (AdminActionsReturned /\ Len(data["admins"]) > 0) =>
        LET admin_ids == {data["admins"][i].AdminID : i \in 1..Len(data["admins"])}
        IN /\ Len(data["admin_actions"])
                 = Max(args.min_actions, 10 * Len(data["admins"]))
           /\ \A k \in 1..Len(data["admin_actions"]) :
                 data["admin_actions"][k].AdminID \in admin_ids
           /\ \A a \in admin_ids : ActionsOf(a) >= 1
           /\ \A a, b \in admin_ids : ActionsOf(a) - ActionsOf(b) <= 1

\* witness of C28: 23 actions for two admins, 12 and 11
C28_Witness ==
    /\ AdminActionsReturned
    /\ Len(data["admins"]) = 2
    /\ args.min_actions = 23
    /\ Len(data["admin_actions"]) = 23
    /\ ActionsOf(1) = 12
    /\ ActionsOf(2) = 11

----------------------------------------------------------------------------
(* populate_booking_table: the cap on the number of bookings *)

\* C29: the Bookings table never has more than
\* int(count(guests) x max_total_bookings_multiplier) rows, while it is built
\* and when it is returned (the multiplier is in halves).
C29_BookingsCapped ==
    ("users" \in DOMAIN data /\ "max_total_bookings_multiplier" \in DOMAIN args) =>
        2 * Len(BookingRows)
           <= CountRows(data["users"], IsGuest) * args.max_total_bookings_multiplier

\* witness of C29: one guest and the multiplier 1.5, a cap of int(1.5) = 1:
\* the table is returned with one booking
C29_Witness ==
    /\ BookingsReturned
    /\ "max_total_bookings" \in DOMAIN loc
    /\ Len(loc.guests) = 1
    /\ args.max_total_bookings_multiplier = 3
    /\ loc.max_total_bookings = 1
    /\ Len(data["bookings"]) = 1

----------------------------------------------------------------------------
(* populate_accommodation_table: the city and the country of a row *)

\* C30: in the returned Accommodations table the CityID and the CountryID of
\* every row exist in their tables and the city of the row is a city of the
\* row's country.
C30_CityOfCountry ==
    (pc = "done" /\ "accommodations" \in DOMAIN data /\ "cities" \in DOMAIN data) =>
        \A i \in 1..Len(data["accommodations"]) :
           LET a == data["accommodations"][i]
           IN /\ \E k \in 1..Len(data["countries"]) :
                    data["countries"][k].CountryID = a.CountryID
              /\ \E k \in 1..Len(data["cities"]) :
                    /\ data["cities"][k].CityID = a.CityID
                    /\ data["cities"][k].CountryID = a.CountryID

----------------------------------------------------------------------------
(* Any one of the generator calls above, from any of its inputs *)

Init ==
    \/ InitUsers
    \/ InitCities
    \/ InitAccommodations
    \/ InitLinks
    \/ InitBookings
    \/ InitAvailability
    \/ InitCommissions
    \/ InitDynamicPrice
    \/ InitMain
    \/ InitValidation
    \/ InitPayments
    \/ InitCancellations
    \/ InitHostResponses
    \/ InitReviews
    \/ InitAdmins
    \/ InitPhotos
    \/ InitAdminActions

Next ==
    \/ NextUsers
    \/ NextCities
    \/ NextAccommodations
    \/ NextLinks
    \/ NextBookings
    \/ NextAvailability
    \/ NextCommissions
    \/ NextDynamicPrice
    \/ NextMain
    \/ NextValidation
    \/ NextPayments
    \/ NextCancellations
    \/ NextHostResponses
    \/ NextReviews
    \/ NextAdmins
    \/ NextPhotos
    \/ NextAdminActions

Spec == Init /\ [][Next]_vars

====
